---- MODULE Spec2Model ----
(***************************************************************************)
(* A model of the oidc-authservice: the CSRF-bound login state             *)
(* (sessions/state.go), the session authenticator                          *)
(* (authenticator_session.go), the bearer ID token authenticator           *)
(* (authenticators/idtoken.go), the authorizers, the watcher of the        *)
(* authorizer's config file (main.go) and the handlers that call them.     *)
(*                                                                         *)
(* Strings are sequences of atoms.  An atom stands for a block of text     *)
(* that holds no "." (a session identifier, a nonce, a path); "." itself   *)
(* is an atom, so that splitting a state parameter on "." is computed.     *)
(***************************************************************************)
EXTENDS Integers, Sequences, FiniteSets, TLC

(***************************************************************************)
(* Bounds of the model.                                                    *)
(***************************************************************************)
\* States issued by CreateState in one behaviour.
MaxIssued == 2
\* Dot-separated parts of a state parameter a client may present.
MaxParts == 2
\* The events the watcher has not yet received.
MaxEvents == 2
\* Failed discovery attempts that are counted; later ones are not.
MaxRetries == 2

(***************************************************************************)
(* Text.                                                                   *)
(***************************************************************************)
Dot == "."
\* Session identifiers the state store can generate (random, dot-free).
StateIDNames == <<"s1", "s2", "s3", "s4">>
StateIDs == {StateIDNames[i] : i \in 1..MaxIssued}
\* Values randString(8) can return (8 letters of charset).
Nonces == {"n1", "n2"}

\* The texts of n dot-separated parts: the first part is empty or an
\* identifier, each further part is empty or a nonce.
RECURSIVE Dotted(_)
Dotted(n) ==
  IF n = 1 THEN {<<>>} \cup {<<id>> : id \in StateIDs}
  ELSE {p \o <<Dot>> \o q : p \in Dotted(n - 1),
                             q \in {<<>>} \cup {<<x>> : x \in Nonces}}

\* strings.Split(s, sep) for a one-atom separator: never empty;
\* Split("", ".") is [""].
RECURSIVE Split(_, _)
Split(s, sep) ==
  IF \E i \in 1..Len(s) : s[i] = sep
  THEN LET i == CHOOSE k \in 1..Len(s) : s[k] = sep /\ \A j \in 1..(k - 1) : s[j] # sep
       IN  <<SubSeq(s, 1, i - 1)>> \o Split(SubSeq(s, i + 1, Len(s)), sep)
  ELSE <<s>>

(***************************************************************************)
(* sessions/state.go                                                       *)
(***************************************************************************)
oidcStateCookie == <<"oidc_state_csrf">>

NoState == [none |-> TRUE]

\* firstVisitedURL with the query dropped.
firstVisitedURL_NoQuery(u) == u.Path

\* url.URL.String() of a URL that holds only Path and RawQuery.
firstVisitedURL(u) ==
  u.Path \o (IF u.RawQuery # <<>> THEN <<"?">> \o u.RawQuery ELSE <<>>)

relativeURL(r) == [FirstVisitedURL |-> firstVisitedURL(r.URL)]

newSchemeAndHost(config, r) ==
  LET h == r.SchemeHeader
      s == IF h = <<>> THEN config.SchemeDefault ELSE h
  IN  [FirstVisitedURL |-> s \o <<"://">> \o r.Host \o firstVisitedURL(r.URL)]

\* The StateFunc that NewStateFunc(config) returns, applied to r.
NewStateFunc(config, r) ==
  IF Len(config.SessionDomain) > 0 THEN newSchemeAndHost(config, r)
  ELSE relativeURL(r)

\* StateCookieName with the nonce left out of the name.
StateCookieName_Static(dyn, nonce) == oidcStateCookie

\* The name of the state cookie: the nonce is appended with dynamic naming.
StateCookieName(dyn, nonce) ==
  IF dyn THEN oidcStateCookie \o <<"_">> \o nonce ELSE oidcStateCookie

\* http.Request.Cookie(name): the named cookie of the request, or an error.
HasCookie(r, name) == name \in DOMAIN r.Cookies

(***************************************************************************)
(* The session store (gorilla sessions.Store over BoltDB): records keyed   *)
(* by session identifier.  A store is a function from identifiers to       *)
(* records; the cookie's value is the identifier.                          *)
(***************************************************************************)
EmptyStore == [k \in {} |-> NoState]

StorePut(store, id, rec) ==
  [k \in DOMAIN store \cup {id} |-> IF k = id THEN rec ELSE store[k]]

StoreDelete(store, id) == [k \in DOMAIN store \ {id} |-> store[k]]

\* store.Get(r, name): the session the request's cookie `name` points to;
\* IsNew when the cookie or the record is missing; an error when the store
\* cannot be read.
StoreGet(store, r, name, fail) ==
  IF fail THEN [err |-> TRUE, IsNew |-> TRUE, ID |-> <<>>, Values |-> NoState]
  ELSE IF HasCookie(r, name) /\ r.Cookies[name] \in DOMAIN store
       THEN [err |-> FALSE, IsNew |-> FALSE, ID |-> r.Cookies[name],
             Values |-> store[r.Cookies[name]]]
       ELSE [err |-> FALSE, IsNew |-> TRUE, ID |-> <<>>, Values |-> NoState]

\* revokeSession(ctx, w, session): saves the session with MaxAge -1, which
\* deletes its record; a failed save deletes nothing.
revokeSession(store, session, fail) ==
  IF fail THEN [err |-> TRUE, store |-> store]
  ELSE [err |-> FALSE, store |-> StoreDelete(store, session.ID)]

\* CreateState(r, w, store, sessionDomain, fn, dynamicOidcStateCookieName)
\* with the random nonce and the identifier the store generates as inputs.
\* Returns the state value, the store and the cookie set on the response.
CreateState(r, store, config, dyn, nonce, id, fail) ==
  LET oidcStateCookieName == StateCookieName(dyn, nonce)
      s == NewStateFunc(config, r)
  IN  IF fail
      THEN [err |-> TRUE, stateValue |-> <<>>, store |-> store,
            setCookie |-> <<>>]
      ELSE [err |-> FALSE,
            stateValue |-> IF dyn THEN id \o <<Dot>> \o nonce ELSE id,
            store |-> StorePut(store, id, s),
            setCookie |-> <<oidcStateCookieName, id>>]

\* The result of VerifyState.
VerifyResult(o, state, store, name, read) ==
  [outcome |-> o, state |-> state, store |-> store, cookieName |-> name,
   storeRead |-> read]

\* VerifyState without the revokeSession call: the record stays.
VerifyState_NoRevoke(r, store, dyn, f) ==
  LET parts == Split(r.State, Dot)
      stateValue == IF dyn THEN parts[1] ELSE r.State
      name == StateCookieName(dyn, IF dyn /\ Len(parts) >= 2 THEN parts[2] ELSE <<>>)
      session == StoreGet(store, r, name, f = "get")
  IN  IF Len(r.State) = 0 THEN VerifyResult("MissingParameter", NoState, store, name, FALSE)
      ELSE IF dyn /\ Len(parts) < 2 THEN VerifyResult("Panic", NoState, store, name, FALSE)
      ELSE IF ~HasCookie(r, name) THEN VerifyResult("MissingCookie", NoState, store, name, FALSE)
      ELSE IF stateValue # r.Cookies[name] THEN VerifyResult("Mismatch", NoState, store, name, FALSE)
      ELSE IF session.err THEN VerifyResult("StoreError", NoState, store, name, TRUE)
      ELSE IF session.IsNew THEN VerifyResult("Expired", NoState, store, name, TRUE)
      ELSE VerifyResult("OK", session.Values, store, name, TRUE)

\* VerifyState without the comparison of the cookie with the parameter.
VerifyState_NoCompare(r, store, dyn, f) ==
  LET parts == Split(r.State, Dot)
      name == StateCookieName(dyn, IF dyn /\ Len(parts) >= 2 THEN parts[2] ELSE <<>>)
      session == StoreGet(store, r, name, f = "get")
      revoked == revokeSession(store, session, f = "revoke")
  IN  IF Len(r.State) = 0 THEN VerifyResult("MissingParameter", NoState, store, name, FALSE)
      ELSE IF dyn /\ Len(parts) < 2 THEN VerifyResult("Panic", NoState, store, name, FALSE)
      ELSE IF ~HasCookie(r, name) THEN VerifyResult("MissingCookie", NoState, store, name, FALSE)
      ELSE IF session.err THEN VerifyResult("StoreError", NoState, store, name, TRUE)
      ELSE IF session.IsNew THEN VerifyResult("Expired", NoState, store, name, TRUE)
      ELSE IF revoked.err THEN VerifyResult("RevokeError", NoState, revoked.store, name, TRUE)
      ELSE VerifyResult("OK", session.Values, revoked.store, name, TRUE)

\* VerifyState that drops the record the parameter names before any check.
VerifyState_RevokeFirst(r, store, dyn, f) ==
  LET parts == Split(r.State, Dot)
      stateValue == IF dyn THEN parts[1] ELSE r.State
      name == StateCookieName(dyn, IF dyn /\ Len(parts) >= 2 THEN parts[2] ELSE <<>>)
      session == StoreGet(store, r, name, f = "get")
      after == StoreDelete(store, stateValue)
  IN  IF Len(r.State) = 0 THEN VerifyResult("MissingParameter", NoState, store, name, FALSE)
      ELSE IF dyn /\ Len(parts) < 2 THEN VerifyResult("Panic", NoState, store, name, FALSE)
      ELSE IF ~HasCookie(r, name) THEN VerifyResult("MissingCookie", NoState, after, name, FALSE)
      ELSE IF stateValue # r.Cookies[name] THEN VerifyResult("Mismatch", NoState, after, name, FALSE)
      ELSE IF session.err THEN VerifyResult("StoreError", NoState, after, name, TRUE)
      ELSE IF session.IsNew THEN VerifyResult("Expired", NoState, after, name, TRUE)
      ELSE VerifyResult("OK", session.Values, after, name, TRUE)

\* VerifyState without the IsNew check: a missing record verifies, with the
\* zero State.
VerifyState_NoIsNew(r, store, dyn, f) ==
  LET parts == Split(r.State, Dot)
      stateValue == IF dyn THEN parts[1] ELSE r.State
      name == StateCookieName(dyn, IF dyn /\ Len(parts) >= 2 THEN parts[2] ELSE <<>>)
      session == StoreGet(store, r, name, f = "get")
      revoked == revokeSession(store, session, f = "revoke")
  IN  IF Len(r.State) = 0 THEN VerifyResult("MissingParameter", NoState, store, name, FALSE)
      ELSE IF dyn /\ Len(parts) < 2 THEN VerifyResult("Panic", NoState, store, name, FALSE)
      ELSE IF ~HasCookie(r, name) THEN VerifyResult("MissingCookie", NoState, store, name, FALSE)
      ELSE IF stateValue # r.Cookies[name] THEN VerifyResult("Mismatch", NoState, store, name, FALSE)
      ELSE IF session.err THEN VerifyResult("StoreError", NoState, store, name, TRUE)
      ELSE IF session.IsNew
           THEN VerifyResult("OK", [FirstVisitedURL |-> <<>>], store, name, TRUE)
      ELSE IF revoked.err THEN VerifyResult("RevokeError", NoState, revoked.store, name, TRUE)
      ELSE VerifyResult("OK", session.Values, revoked.store, name, TRUE)

\* VerifyState that reads the store before it looks at the cookie.
VerifyState_ReadsFirst(r, store, dyn, f) ==
  LET parts == Split(r.State, Dot)
      stateValue == IF dyn THEN parts[1] ELSE r.State
      name == StateCookieName(dyn, IF dyn /\ Len(parts) >= 2 THEN parts[2] ELSE <<>>)
      session == StoreGet(store, r, name, f = "get")
      revoked == revokeSession(store, session, f = "revoke")
  IN  IF Len(r.State) = 0 THEN VerifyResult("MissingParameter", NoState, store, name, FALSE)
      ELSE IF dyn /\ Len(parts) < 2 THEN VerifyResult("Panic", NoState, store, name, FALSE)
      ELSE IF session.err THEN VerifyResult("StoreError", NoState, store, name, TRUE)
      ELSE IF session.IsNew THEN VerifyResult("Expired", NoState, store, name, TRUE)
      ELSE IF ~HasCookie(r, name) THEN VerifyResult("MissingCookie", NoState, store, name, TRUE)
      ELSE IF stateValue # r.Cookies[name] THEN VerifyResult("Mismatch", NoState, store, name, TRUE)
      ELSE IF revoked.err THEN VerifyResult("RevokeError", NoState, revoked.store, name, TRUE)
      ELSE VerifyResult("OK", session.Values, revoked.store, name, TRUE)

\* VerifyState(r, w, store, dynamicOidcStateCookieName).  outcome is one of
\*   MissingParameter, MissingCookie, Mismatch, StoreError, Expired,
\*   RevokeError, OK, or Panic (index out of range at stateParamParts[1]).
VerifyState(r, store, dyn, f) ==
  LET stateParam == r.State
      parts == Split(stateParam, Dot)
      stateValue == IF dyn THEN parts[1] ELSE stateParam
      nonce == IF dyn /\ Len(parts) >= 2 THEN parts[2] ELSE <<>>
      name == StateCookieName(dyn, nonce)
      session == StoreGet(store, r, name, f = "get")
      revoked == revokeSession(store, session, f = "revoke")
  IN  IF Len(stateParam) = 0 THEN VerifyResult("MissingParameter", NoState, store, name, FALSE)
      ELSE IF dyn /\ Len(parts) < 2 THEN VerifyResult("Panic", NoState, store, name, FALSE)
      ELSE IF ~HasCookie(r, name) THEN VerifyResult("MissingCookie", NoState, store, name, FALSE)
      ELSE IF stateValue # r.Cookies[name] THEN VerifyResult("Mismatch", NoState, store, name, FALSE)
      ELSE IF session.err THEN VerifyResult("StoreError", NoState, store, name, TRUE)
      ELSE IF session.IsNew THEN VerifyResult("Expired", NoState, store, name, TRUE)
      ELSE IF revoked.err THEN VerifyResult("RevokeError", NoState, revoked.store, name, TRUE)
      ELSE VerifyResult("OK", session.Values, revoked.store, name, TRUE)

(***************************************************************************)
(* The program's state.                                                    *)
(***************************************************************************)
VARIABLES
  cfg,         \* the configuration read at start-up
  boot,        \* main's position in its setup, the isReady flag, the
               \* listeners started and the fields of the server assigned
  stateStore,  \* the "oidc_state" bucket: state records by identifier
  store,       \* the user session bucket: session records by identifier
  jar,         \* the state cookies the client holds, by name (a client
               \* may keep a cookie the server has asked it to drop)
  issued,      \* history: what CreateState returned, by state identifier
  okReqs,      \* history: the callback requests whose state verified
  dropped,     \* history: the user sessions deleted, as <<identifier, cause>>
  rules,       \* the live rule table of the configAuthorizer
  file,        \* the authorizer's config file: its content, or Missing
  watch,       \* the file watcher: its watch, its event channel, its task
  last         \* the last request and its result

vars ==
  <<cfg, boot, stateStore, store, jar, issued, okReqs, dropped, rules, file, watch, last>>

\* What the login flow reads and writes, and what the authorizer does.
loginVars == <<stateStore, jar, issued, okReqs>>
authzVars == <<rules, file, watch>>

\* The identifiers of the user sessions deleted so far.
DroppedIDs == {d[1] : d \in dropped}

\* The group lists GROUPS_ALLOWLIST may hold.
wildcardMatcher == "*"
Allowlists == {<<>>, <<wildcardMatcher>>, <<"admins">>, <<"ops", "eng">>}

Configs ==
  [dynamicOidcStateCookieName : BOOLEAN,
   strictSessionValidation : BOOLEAN,
   SessionDomain : {<<>>, <<"example.com">>},
   SchemeDefault : {<<"http">>},
   TokenScheme : {<<>>, <<"Bearer">>},
   Authenticators : SUBSET {"kubernetes", "session", "idtoken"},
   AuthzConfigPath : {<<>>, <<"/etc/authz.yaml">>},
   GroupsAllowlist : Allowlists]

\* The configurations in which the session and ID token authenticators are
\* enabled and the groups authorizer allows every group.
DefaultConfigs ==
  {c \in Configs :
     /\ c.TokenScheme = <<"Bearer">>
     /\ c.Authenticators = {"session", "idtoken"}
     /\ c.AuthzConfigPath = <<>>
     /\ c.GroupsAllowlist = <<wildcardMatcher>>}

\* Faults of the store's backing file on one request: the operation that
\* returns an error, if any (the request ends at the first error).
NoFaults == {"none"}
AnyFaults == {"none", "get", "save", "revoke"}

EmptyJar == [k \in {} |-> <<>>]

\* A request to the authenticate handler: where it goes and the credentials
\* it carries (the session its cookie or header names, and the Authorization
\* header).
Request(path, query, host, scheme, session, bearer) ==
  [URL |-> [Path |-> path, RawQuery |-> query], Host |-> host,
   SchemeHeader |-> scheme, Session |-> session, Bearer |-> bearer]

\* The requests without credentials: each starts a login.
LoginRequests ==
  {Request(<<"/app">>, <<"x=1">>, <<"app.example.com">>, <<>>, <<>>, <<>>),
   Request(<<"/app">>, <<>>, <<"app.example.com">>, <<"https">>, <<>>, <<>>)}

\* The state parameter of a callback request.
Params == UNION {Dotted(n) : n \in 1..MaxParts}

\* The cookies of a callback request: the ones the client holds, or none.
CookieChoices == {jar, EmptyJar}

SetCookie(j, c) == [k \in DOMAIN j \cup {c[1]} |-> IF k = c[1] THEN c[2] ELSE j[k]]

\* The identifier the store generates next: one never used before.
FreshID(names, used) ==
  names[CHOOSE i \in 1..Len(names) :
          <<names[i]>> \notin used /\ \A j \in 1..(i - 1) : <<names[j]>> \in used]

(***************************************************************************)
(* Start-up: main's setup, the isReady flag and the routes.                *)
(***************************************************************************)
\* The fields of the server that main assigns.
ServerFields ==
  {"provider", "oauth2Config", "store", "oidcStateStore", "authenticators",
   "authorizers", "newState"}

\* main before its first goroutine, and main waiting on stopCh.
NotStarted ==
  [pc |-> "probe", isReady |-> FALSE, probe |-> FALSE, server |-> FALSE,
   fields |-> {}, failures |-> 0, discovered |-> FALSE]

Started ==
  [pc |-> "wait", isReady |-> TRUE, probe |-> TRUE, server |-> TRUE,
   fields |-> ServerFields, failures |-> 0, discovered |-> TRUE]

\* log.Fatal, log.Fatalf: the process ends, and its listeners with it.
Exit(b) == [b EXCEPT !.pc = "exit", !.probe = FALSE, !.server = FALSE]

\* The steps of main that can fail, and what an attempt can give.
Outcomes(pc) ==
  IF pc \in {"caBundle", "discovery", "stores", "authenticators"}
  THEN BOOLEAN ELSE {TRUE}

\* main that ends the process when discovery fails.
mainStep_DiscoveryFatal(b, ok) ==
  IF b.pc = "probe" THEN [b EXCEPT !.probe = TRUE, !.pc = "serve"]
  ELSE IF b.pc = "serve" THEN [b EXCEPT !.server = TRUE, !.pc = "caBundle"]
  ELSE IF b.pc = "caBundle"
  THEN IF ok THEN [b EXCEPT !.pc = "discovery"] ELSE Exit(b)
  ELSE IF b.pc = "discovery"
  THEN IF ok THEN [b EXCEPT !.discovered = TRUE, !.pc = "stores"] ELSE Exit(b)
  ELSE IF b.pc = "stores"
  THEN IF ok THEN [b EXCEPT !.pc = "authenticators"] ELSE Exit(b)
  ELSE IF b.pc = "authenticators"
  THEN IF ok THEN [b EXCEPT !.pc = "assign"] ELSE Exit(b)
  ELSE IF b.pc = "assign"
  THEN [b EXCEPT !.fields = ServerFields \ {"newState"}, !.pc = "newState"]
  ELSE IF b.pc = "newState"
  THEN [b EXCEPT !.fields = @ \cup {"newState"}, !.pc = "setReady"]
  ELSE IF b.pc = "setReady" THEN [b EXCEPT !.isReady = TRUE, !.pc = "wait"]
  ELSE b

\* main that sets isReady before it assigns the fields of the server.
mainStep_ReadyFirst(b, ok) ==
  IF b.pc = "probe" THEN [b EXCEPT !.probe = TRUE, !.pc = "serve"]
  ELSE IF b.pc = "serve" THEN [b EXCEPT !.server = TRUE, !.pc = "caBundle"]
  ELSE IF b.pc = "caBundle"
  THEN IF ok THEN [b EXCEPT !.pc = "discovery"] ELSE Exit(b)
  ELSE IF b.pc = "discovery"
  THEN IF ok THEN [b EXCEPT !.discovered = TRUE, !.pc = "stores"]
       ELSE [b EXCEPT !.failures = IF @ < MaxRetries THEN @ + 1 ELSE @]
  ELSE IF b.pc = "stores"
  THEN IF ok THEN [b EXCEPT !.pc = "authenticators"] ELSE Exit(b)
  ELSE IF b.pc = "authenticators"
  THEN IF ok THEN [b EXCEPT !.isReady = TRUE, !.pc = "assign"] ELSE Exit(b)
  ELSE IF b.pc = "assign"
  THEN [b EXCEPT !.fields = ServerFields \ {"newState"}, !.pc = "newState"]
  ELSE IF b.pc = "newState"
  THEN [b EXCEPT !.fields = @ \cup {"newState"}, !.pc = "setReady"]
  ELSE IF b.pc = "setReady" THEN [b EXCEPT !.pc = "wait"]
  ELSE b

\* One step of main, from the start of the readiness probe to isReady.Set():
\*   probe           the goroutine of the readiness probe (42-47)
\*   serve           the routes and the goroutines of the servers (53-81)
\*   caBundle        the CA bundle is read, or the process ends (88-94)
\*   discovery       oidc.NewProvider, tried again after 10 seconds (97-106)
\*   stores          the two stores are opened, or the process ends (108-129)
\*   authenticators  authenticators, authorizer, watcher (131-242)
\*   assign          *s = server{...} (247-273)
\*   newState        s.newState = newStateFunc(...) (274-290)
\*   setReady        isReady.Set() (293)
\* failures counts the failed discoveries, up to MaxRetries.
mainStep(b, ok) ==
  IF b.pc = "probe" THEN [b EXCEPT !.probe = TRUE, !.pc = "serve"]
  ELSE IF b.pc = "serve" THEN [b EXCEPT !.server = TRUE, !.pc = "caBundle"]
  ELSE IF b.pc = "caBundle"
  THEN IF ok THEN [b EXCEPT !.pc = "discovery"] ELSE Exit(b)
  ELSE IF b.pc = "discovery"
  THEN IF ok THEN [b EXCEPT !.discovered = TRUE, !.pc = "stores"]
       ELSE [b EXCEPT !.failures = IF @ < MaxRetries THEN @ + 1 ELSE @]
  ELSE IF b.pc = "stores"
  THEN IF ok THEN [b EXCEPT !.pc = "authenticators"] ELSE Exit(b)
  ELSE IF b.pc = "authenticators"
  THEN IF ok THEN [b EXCEPT !.pc = "assign"] ELSE Exit(b)
  ELSE IF b.pc = "assign"
  THEN [b EXCEPT !.fields = ServerFields \ {"newState"}, !.pc = "newState"]
  ELSE IF b.pc = "newState"
  THEN [b EXCEPT !.fields = @ \cup {"newState"}, !.pc = "setReady"]
  ELSE IF b.pc = "setReady" THEN [b EXCEPT !.isReady = TRUE, !.pc = "wait"]
  ELSE b

\* whitelistMiddleware(c.SkipAuthURLs, isReady): while isReady is unset the
\* request is held; a path of the skip list is answered without the handler.
whitelistMiddleware(skipListed, isReady) ==
  IF ~isReady THEN "held"
  ELSE IF skipListed THEN "skip"
  ELSE "authenticate"

\* The router: the handler a request reaches.  The callback and the logout
\* routes lead to their handlers; every other path leads to s.authenticate
\* behind whitelistMiddleware.
Routes == {"callback", "logout", "other"}

router(route, skipListed, isReady) ==
  IF route = "callback" THEN "callback"
  ELSE IF route = "logout" THEN "logout"
  ELSE whitelistMiddleware(skipListed, isReady)

\* The server is listening and the handler finds the fields it uses.
Listening == boot.server /\ boot.pc # "exit"
Configured == boot.fields = ServerFields

(***************************************************************************)
(* User sessions.  A session's Values map keys to typed values, as the     *)
(* gorilla session's map[interface{}]interface{} does.                     *)
(***************************************************************************)
UserSessionUserID == "userid"
UserSessionGroups == "groups"
UserSessionOAuth2Tokens == "oauth2tokens"


StringV(v) == [type |-> "string", val |-> v]
StringsV(v) == [type |-> "[]string", val |-> v]
TokenV(v) == [type |-> "oauth2.Token", val |-> v]

\* v, ok := values[key].(T)
HasType(values, key, type) == key \in DOMAIN values /\ values[key].type = type

\* The record the callback writes after a login.
NewUserSession(userID, groups, token) ==
  (UserSessionUserID :> StringV(userID)) @@
  (UserSessionGroups :> StringsV(groups)) @@
  (UserSessionOAuth2Tokens :> TokenV(token))

SessionIDNames == <<"u1", "u2", "u3", "u4">>

(***************************************************************************)
(* The callback handler, GET <prefix>/oidc/callback.                       *)
(***************************************************************************)
\* The response and the effects of one callback request.  exchange is what
\* the provider answers to the code exchange, claims what the ID token holds.
Callback(r, states, sessions, dyn, f, exchange, claims, newID) ==
  LET v == VerifyState(r, states, dyn, f)
      base == [verify |-> v.outcome, cookieName |-> v.cookieName,
               state |-> v.state, states |-> v.store, sessions |-> sessions,
               exchanged |-> FALSE, created |-> <<>>, location |-> <<>>,
               status |-> 0]
  IN  IF v.outcome = "Panic" THEN base
      ELSE IF v.outcome # "OK" THEN [base EXCEPT !.status = 401]
      ELSE IF exchange # "ok" THEN [base EXCEPT !.status = 500, !.exchanged = TRUE]
      ELSE IF f = "save" THEN [base EXCEPT !.status = 500, !.exchanged = TRUE]
      ELSE [base EXCEPT !.status = 302, !.exchanged = TRUE, !.created = newID,
                        !.sessions = StorePut(sessions, newID,
                                       NewUserSession(claims.userID, claims.groups, "t1")),
                        !.location = v.state.FirstVisitedURL]

CallbackRequests == [State : Params, Cookies : CookieChoices]

Claims == {[userID |-> "alice", groups |-> <<"admins", "eng">>]}

\* What the provider answers: read only after the state has verified.
ProviderAnswers(r, f) ==
  IF VerifyState(r, stateStore, cfg.dynamicOidcStateCookieName, f).outcome = "OK"
  THEN [exchange : {"ok", "fail"}, claims : Claims]
  ELSE {[exchange |-> "fail", claims |-> CHOOSE c \in Claims : TRUE]}

(***************************************************************************)
(* common/util.go                                                          *)
(***************************************************************************)
Space == " "

\* strings.TrimSpace, on a text whose blanks are Space atoms.
RECURSIVE TrimSpace(_)
TrimSpace(v) ==
  IF Len(v) > 0 /\ Head(v) = Space THEN TrimSpace(Tail(v))
  ELSE IF Len(v) > 0 /\ v[Len(v)] = Space THEN TrimSpace(SubSeq(v, 1, Len(v) - 1))
  ELSE v

GetBearerToken(value) ==
  LET t == TrimSpace(value)
  IN  IF Len(t) > 0 /\ Head(t) = "Bearer " THEN Tail(t) ELSE t

(***************************************************************************)
(* The authenticators.  Each returns (user, handled, err); err is "nil",   *)
(* "error" (a plain error) or "specific" (an AuthenticatorSpecificError).  *)
(***************************************************************************)
NoUser == [none |-> TRUE]

\* session is what the store answered ("error", "new", "found", or "none"
\* when it was not asked), userInfo what the provider answered to the
\* UserInfo call ("none" when it was not called).
AuthResult(user, handled, err, sessions, session, userInfo, header) ==
  [user |-> user, handled |-> handled, err |-> err, sessions |-> sessions,
   session |-> session, userInfo |-> userInfo, header |-> header, panic |-> FALSE,
   revokeErr |-> FALSE]

\* A failed type assertion v := values[key].(T) stops the handler.
AuthPanic(sessions) ==
  [AuthResult(NoUser, FALSE, "nil", sessions, "found", "none", <<>>) EXCEPT !.panic = TRUE]

\* store.SessionFromRequest(r): the session the request's cookie or header
\* names; IsNew when the request names none or the record is gone.
SessionFromRequest(sessions, r, fail) ==
  IF fail THEN [err |-> TRUE, IsNew |-> TRUE, ID |-> <<>>, Values |-> <<>>]
  ELSE IF r.Session \in DOMAIN sessions
       THEN [err |-> FALSE, IsNew |-> FALSE, ID |-> r.Session,
             Values |-> sessions[r.Session]]
       ELSE [err |-> FALSE, IsNew |-> TRUE, ID |-> <<>>, Values |-> <<>>]

\* What sm.GetUserInfo returns: the claims, a RequestError that carries the
\* provider's status code, or another error (the request was not answered).
UserInfoAnswers == {"ok", "401", "500", "transport"}

\* sm.RevokeSession(ctx, w, session): deletes the local record whatever the
\* provider answers to the revocation; the provider's failure is the error.
RevokeSession(sessions, session, providerFails) ==
  [err |-> providerFails, sessions |-> StoreDelete(sessions, session.ID)]

\* AuthenticateRequest without the revalidation against the provider.
AuthenticateRequest_NoRevalidation(r, sessions, strict, f, userinfo, providerFails) ==
  LET session == SessionFromRequest(sessions, r, f = "get")
      values == session.Values
      groups == IF HasType(values, UserSessionGroups, "[]string")
                THEN values[UserSessionGroups].val ELSE <<>>
  IN  IF session.err
      THEN AuthResult(NoUser, FALSE, "error", sessions, "error", "none", <<>>)
      ELSE IF session.IsNew
      THEN AuthResult(NoUser, FALSE, "nil", sessions, "new", "none", <<>>)
      ELSE IF ~HasType(values, UserSessionUserID, "string") THEN AuthPanic(sessions)
      ELSE AuthResult([Name |-> values[UserSessionUserID].val, Groups |-> groups,
                       Extra |-> <<>>],
                      TRUE, "nil", sessions, "found",
                      IF strict THEN userinfo ELSE "none", <<>>)

\* AuthenticateRequest that asks the provider before it looks at IsNew.
AuthenticateRequest_AsksFirst(r, sessions, strict, f, userinfo, providerFails) ==
  LET session == SessionFromRequest(sessions, r, f = "get")
  IN  IF session.err
      THEN AuthResult(NoUser, FALSE, "error", sessions, "error", "none", <<>>)
      ELSE IF session.IsNew
      THEN AuthResult(NoUser, FALSE, "nil", sessions, "new",
                      IF strict THEN userinfo ELSE "none", <<>>)
      ELSE AuthenticateRequest_NoRevalidation(r, sessions, FALSE, f, userinfo,
                                              providerFails)

\* AuthenticateRequest that takes a missing groups value for an error.
AuthenticateRequest_GroupsRequired(r, sessions, strict, f, userinfo, providerFails) ==
  LET session == SessionFromRequest(sessions, r, f = "get")
      values == session.Values
  IN  IF ~session.err /\ ~session.IsNew
         /\ ~HasType(values, UserSessionGroups, "[]string")
      THEN AuthResult(NoUser, FALSE, "error", sessions, "found", "none", <<>>)
      ELSE AuthenticateRequest_NoRevalidation(r, sessions, FALSE, f, userinfo,
                                              providerFails)

\* AuthenticateRequest that returns the error of RevokeSession to the chain.
AuthenticateRequest_RevokeErrorReturned(r, sessions, strict, f, userinfo, providerFails) ==
  LET session == SessionFromRequest(sessions, r, f = "get")
      values == session.Values
      revoked == RevokeSession(sessions, session, providerFails)
      groups == IF HasType(values, UserSessionGroups, "[]string")
                THEN values[UserSessionGroups].val ELSE <<>>
  IN  IF session.err
      THEN AuthResult(NoUser, FALSE, "error", sessions, "error", "none", <<>>)
      ELSE IF session.IsNew
      THEN AuthResult(NoUser, FALSE, "nil", sessions, "new", "none", <<>>)
      ELSE IF strict /\ ~HasType(values, UserSessionOAuth2Tokens, "oauth2.Token")
      THEN AuthPanic(sessions)
      ELSE IF strict /\ userinfo = "transport"
      THEN AuthResult(NoUser, FALSE, "error", sessions, "found", userinfo, <<>>)
      ELSE IF strict /\ userinfo \notin {"ok", "401"}
      THEN AuthResult(NoUser, FALSE, "error", sessions, "found", userinfo, <<>>)
      ELSE IF strict /\ userinfo = "401"
      THEN [AuthResult(NoUser, FALSE, IF revoked.err THEN "error" ELSE "nil",
                       revoked.sessions, "found", userinfo, <<>>)
              EXCEPT !.revokeErr = revoked.err]
      ELSE IF ~HasType(values, UserSessionUserID, "string") THEN AuthPanic(sessions)
      ELSE AuthResult([Name |-> values[UserSessionUserID].val, Groups |-> groups,
                       Extra |-> <<>>],
                      TRUE, "nil", sessions, "found",
                      IF strict THEN userinfo ELSE "none", <<>>)

\* sessionAuthenticator.AuthenticateRequest(r), with what the store and the
\* provider answer as inputs.
AuthenticateRequest(r, sessions, strict, f, userinfo, providerFails) ==
  LET session == SessionFromRequest(sessions, r, f = "get")
      values == session.Values
      revoked == RevokeSession(sessions, session, providerFails)
      groups == IF HasType(values, UserSessionGroups, "[]string")
                THEN values[UserSessionGroups].val ELSE <<>>
  IN  IF session.err
      THEN AuthResult(NoUser, FALSE, "error", sessions, "error", "none", <<>>)
      ELSE IF session.IsNew
      THEN AuthResult(NoUser, FALSE, "nil", sessions, "new", "none", <<>>)
      ELSE IF strict /\ ~HasType(values, UserSessionOAuth2Tokens, "oauth2.Token")
      THEN AuthPanic(sessions)
      ELSE IF strict /\ userinfo = "transport"
      THEN AuthResult(NoUser, FALSE, "error", sessions, "found", userinfo, <<>>)
      ELSE IF strict /\ userinfo \notin {"ok", "401"}
      THEN AuthResult(NoUser, FALSE, "error", sessions, "found", userinfo, <<>>)
      ELSE IF strict /\ userinfo = "401"
      THEN [AuthResult(NoUser, FALSE, "nil", revoked.sessions, "found", userinfo, <<>>)
              EXCEPT !.revokeErr = revoked.err]
      ELSE IF ~HasType(values, UserSessionUserID, "string") THEN AuthPanic(sessions)
      ELSE AuthResult([Name |-> values[UserSessionUserID].val, Groups |-> groups,
                       Extra |-> <<>>],
                      TRUE, "nil", sessions, "found",
                      IF strict THEN userinfo ELSE "none", <<>>)

(***************************************************************************)
(* authenticators/idtoken.go                                               *)
(***************************************************************************)
\* The ID tokens a request may carry: whether the provider's keys verify
\* the token, and the claims it holds.
IDTokens ==
  ("good" :> [valid |-> TRUE, claimsOK |-> TRUE, hasUserID |-> TRUE,
              userID |-> "bob", groups |-> <<"eng">>]) @@
  ("nouser" :> [valid |-> TRUE, claimsOK |-> TRUE, hasUserID |-> FALSE,
                userID |-> "", groups |-> <<>>]) @@
  ("opaque" :> [valid |-> TRUE, claimsOK |-> FALSE, hasUserID |-> FALSE,
                userID |-> "", groups |-> <<>>]) @@
  ("bad" :> [valid |-> FALSE, claimsOK |-> FALSE, hasUserID |-> FALSE,
             userID |-> "", groups |-> <<>>])

\* SessionManager.VerifyWithoutClientId(ctx, bearer): fails unless the text
\* is a token the provider's keys verify.
VerifyWithoutClientId(bearer) ==
  Len(bearer) = 1 /\ bearer[1] \in DOMAIN IDTokens /\ IDTokens[bearer[1]].valid

\* Authenticate that passes on a token without a userID claim.
Authenticate_UserIDRequired(r, sessions, tokenScheme) ==
  LET bearer == GetBearerToken(r.Bearer)
      token == IDTokens[bearer[1]]
      idHeader == IF tokenScheme # <<>> THEN tokenScheme \o <<Space>> \o bearer
                  ELSE bearer
  IN  IF Len(bearer) = 0
      THEN AuthResult(NoUser, FALSE, "nil", sessions, "none", "none", <<>>)
      ELSE IF ~VerifyWithoutClientId(bearer)
      THEN AuthResult(NoUser, FALSE, "nil", sessions, "none", "none", <<>>)
      ELSE IF ~token.claimsOK
      THEN AuthResult(NoUser, FALSE, "nil", sessions, "none", "none", <<>>)
      ELSE IF ~token.hasUserID
      THEN AuthResult(NoUser, FALSE, "nil", sessions, "none", "none", idHeader)
      ELSE AuthResult([Name |-> token.userID, Groups |-> token.groups,
                       Extra |-> <<<<"auth-method", <<"header">>>>>>],
                      TRUE, "nil", sessions, "none", "none", idHeader)

\* Authenticate that sets the downstream header before it verifies the token.
Authenticate_EmitsUnverified(r, sessions, tokenScheme) ==
  LET bearer == GetBearerToken(r.Bearer)
      token == IDTokens[bearer[1]]
      idHeader == IF tokenScheme # <<>> THEN tokenScheme \o <<Space>> \o bearer
                  ELSE bearer
  IN  IF Len(bearer) = 0
      THEN AuthResult(NoUser, FALSE, "nil", sessions, "none", "none", <<>>)
      ELSE IF ~VerifyWithoutClientId(bearer)
      THEN AuthResult(NoUser, FALSE, "nil", sessions, "none", "none", idHeader)
      ELSE IF ~token.claimsOK
      THEN AuthResult(NoUser, FALSE, "nil", sessions, "none", "none", <<>>)
      ELSE IF ~token.hasUserID
      THEN AuthResult([Name |-> "", Groups |-> <<>>, Extra |-> <<>>],
                      TRUE, "nil", sessions, "none", "none", idHeader)
      ELSE AuthResult([Name |-> token.userID, Groups |-> token.groups,
                       Extra |-> <<<<"auth-method", <<"header">>>>>>],
                      TRUE, "nil", sessions, "none", "none", idHeader)

\* Authenticate that records no auth-method.
Authenticate_NoExtra(r, sessions, tokenScheme) ==
  LET bearer == GetBearerToken(r.Bearer)
      token == IDTokens[bearer[1]]
      idHeader == IF tokenScheme # <<>> THEN tokenScheme \o <<Space>> \o bearer
                  ELSE bearer
  IN  IF Len(bearer) = 0
      THEN AuthResult(NoUser, FALSE, "nil", sessions, "none", "none", <<>>)
      ELSE IF ~VerifyWithoutClientId(bearer)
      THEN AuthResult(NoUser, FALSE, "nil", sessions, "none", "none", <<>>)
      ELSE IF ~token.claimsOK
      THEN AuthResult(NoUser, FALSE, "nil", sessions, "none", "none", <<>>)
      ELSE IF ~token.hasUserID
      THEN AuthResult([Name |-> "", Groups |-> <<>>, Extra |-> <<>>],
                      TRUE, "nil", sessions, "none", "none", idHeader)
      ELSE AuthResult([Name |-> token.userID, Groups |-> token.groups,
                       Extra |-> <<>>],
                      TRUE, "nil", sessions, "none", "none", idHeader)

\* IDTokenAuthenticator.Authenticate(w, r).
Authenticate(r, sessions, tokenScheme) ==
  LET bearer == GetBearerToken(r.Bearer)
      token == IDTokens[bearer[1]]
      idHeader == IF tokenScheme # <<>> THEN tokenScheme \o <<Space>> \o bearer
                  ELSE bearer
  IN  IF Len(bearer) = 0
      THEN AuthResult(NoUser, FALSE, "nil", sessions, "none", "none", <<>>)
      ELSE IF ~VerifyWithoutClientId(bearer)
      THEN AuthResult(NoUser, FALSE, "nil", sessions, "none", "none", <<>>)
      ELSE IF ~token.claimsOK
      THEN AuthResult(NoUser, FALSE, "nil", sessions, "none", "none", <<>>)
      ELSE IF ~token.hasUserID
      THEN AuthResult([Name |-> "", Groups |-> <<>>, Extra |-> <<>>],
                      TRUE, "nil", sessions, "none", "none", idHeader)
      ELSE AuthResult([Name |-> token.userID, Groups |-> token.groups,
                       Extra |-> <<<<"auth-method", <<"header">>>>>>],
                      TRUE, "nil", sessions, "none", "none", idHeader)

(***************************************************************************)
(* The Kubernetes authenticator: the token review of the cluster decides.  *)
(***************************************************************************)
\* The service-account tokens the cluster's token review authenticates for
\* the configured audiences.
K8sTokens ==
  ("sa" :> [name |-> "system:serviceaccount:ns:ci",
            groups |-> <<"system:serviceaccounts">>])

\* kubernetesAuthenticator: the bearer token of the Authorization header is
\* reviewed; a token the review does not authenticate passes the request on.
KubernetesAuthenticate(r, sessions) ==
  LET bearer == GetBearerToken(r.Bearer)
  IN  IF Len(bearer) = 1 /\ bearer[1] \in DOMAIN K8sTokens
      THEN AuthResult([Name |-> K8sTokens[bearer[1]].name,
                       Groups |-> K8sTokens[bearer[1]].groups, Extra |-> <<>>],
                      TRUE, "nil", sessions, "none", "none", <<>>)
      ELSE AuthResult(NoUser, FALSE, "nil", sessions, "none", "none", <<>>)

(***************************************************************************)
(* The authenticate handler: the chain of authenticators.                  *)
(***************************************************************************)
\* Authenticators with the ID token authenticator appended first.
Authenticators_IDTokenFirst(enabled) ==
  (IF "idtoken" \in enabled THEN <<"idtoken">> ELSE <<>>) \o
  (IF "kubernetes" \in enabled THEN <<"kubernetes">> ELSE <<>>) \o
  (IF "session" \in enabled THEN <<"session">> ELSE <<>>)

\* The authenticators main appends, in order, for those enabled.
Authenticators(enabled) ==
  (IF "kubernetes" \in enabled THEN <<"kubernetes">> ELSE <<>>) \o
  (IF "session" \in enabled THEN <<"session">> ELSE <<>>) \o
  (IF "idtoken" \in enabled THEN <<"idtoken">> ELSE <<>>)

RunAuthenticator(name, r, sessions, c, in) ==
  IF name = "kubernetes" THEN KubernetesAuthenticate(r, sessions)
  ELSE IF name = "session"
  THEN AuthenticateRequest(r, sessions, c.strictSessionValidation, in.f,
                           in.userinfo, in.providerFails)
  ELSE Authenticate(r, sessions, c.TokenScheme)

\* The chain: the first authenticator that handles the request decides; an
\* authenticator that does not handle it passes the request to the next.
\* headers are the response headers the authenticators have set.
RECURSIVE RunChain(_, _, _, _, _)
RunChain(names, r, sessions, c, in) ==
  IF names = <<>>
  THEN [outcome |-> "unauthenticated", user |-> NoUser, by |-> "none",
        sessions |-> sessions, tried |-> <<>>, header |-> <<>>]
  ELSE LET a == RunAuthenticator(Head(names), r, sessions, c, in)
           t == [name |-> Head(names), handled |-> a.handled, err |-> a.err,
                 user |-> a.user, session |-> a.session, userInfo |-> a.userInfo,
                 header |-> a.header, panic |-> a.panic,
                 revokeErr |-> a.revokeErr]
           rest == RunChain(Tail(names), r, a.sessions, c, in)
       IN  IF a.panic
           THEN [outcome |-> "panic", user |-> NoUser, by |-> "none",
                 sessions |-> a.sessions, tried |-> <<t>>, header |-> a.header]
           ELSE IF a.err = "specific" \/ (a.handled /\ a.err # "nil")
           THEN [outcome |-> "rejected", user |-> NoUser, by |-> Head(names),
                 sessions |-> a.sessions, tried |-> <<t>>, header |-> a.header]
           ELSE IF a.handled
           THEN [outcome |-> "authenticated", user |-> a.user, by |-> Head(names),
                 sessions |-> a.sessions, tried |-> <<t>>, header |-> a.header]
           ELSE [rest EXCEPT !.tried = <<t>> \o @]

(***************************************************************************)
(* The authorizers.                                                        *)
(***************************************************************************)
Range(s) == {s[i] : i \in 1..Len(s)}

\* groupsAuthorizer.Authorize with an allowlist that only names the groups
\* it allows.
GroupsAuthorize_NoWildcard(allowlist, user) ==
  [allowed |-> Range(user.Groups) \cap Range(allowlist) # {},
   reason |-> "groups", err |-> FALSE]

\* groupsAuthorizer.Authorize(r, user): allowed, the reason if not, and the
\* error.
GroupsAuthorize(allowlist, user) ==
  IF wildcardMatcher \in Range(allowlist)
  THEN [allowed |-> TRUE, reason |-> "", err |-> FALSE]
  ELSE IF Range(user.Groups) \cap Range(allowlist) # {}
  THEN [allowed |-> TRUE, reason |-> "", err |-> FALSE]
  ELSE [allowed |-> FALSE, reason |-> "groups not in allowlist", err |-> FALSE]

\* configAuthorizer.Authorize that allows a host it has no rule for.
ConfigAuthorize_OpenByDefault(table, r, user) ==
  IF r.Host \notin DOMAIN table THEN [allowed |-> TRUE, reason |-> "", err |-> FALSE]
  ELSE GroupsAuthorize(table[r.Host], user)

\* configAuthorizer.Authorize(r, user) against one rule table.
ConfigAuthorize(table, r, user) ==
  IF r.Host \notin DOMAIN table
  THEN [allowed |-> FALSE, reason |-> "host not configured", err |-> FALSE]
  ELSE IF wildcardMatcher \in Range(table[r.Host])
  THEN [allowed |-> TRUE, reason |-> "", err |-> FALSE]
  ELSE IF Range(user.Groups) \cap Range(table[r.Host]) # {}
  THEN [allowed |-> TRUE, reason |-> "", err |-> FALSE]
  ELSE [allowed |-> FALSE, reason |-> "groups not allowed for host", err |-> FALSE]

\* The server with no authorizer.
Authorizers_None(c) == <<>>

\* The authorizers of the server: the configAuthorizer when a config file is
\* named, the groupsAuthorizer otherwise.
Authorizers(c) ==
  IF c.AuthzConfigPath # <<>> THEN <<"config">> ELSE <<"groups">>

\* The authorizer chain: all must allow, the first that denies decides.
RECURSIVE RunAuthorizers(_, _, _, _, _)
RunAuthorizers(names, r, user, c, table) ==
  IF names = <<>> THEN [allowed |-> TRUE, reason |-> "", ran |-> <<>>]
  ELSE LET a == IF Head(names) = "config" THEN ConfigAuthorize(table, r, user)
                ELSE GroupsAuthorize(c.GroupsAllowlist, user)
           rest == RunAuthorizers(Tail(names), r, user, c, table)
       IN  IF a.err \/ ~a.allowed
           THEN [allowed |-> FALSE, reason |-> a.reason, ran |-> <<Head(names)>>]
           ELSE [rest EXCEPT !.ran = <<Head(names)>> \o @]

(***************************************************************************)
(* The authenticate handler: every path but the callback and the logout.   *)
(***************************************************************************)
\* The response of the handler, from what the chain, CreateState and the
\* authorizers returned.
Respond(states, chain, created, authz, table) ==
  LET base == [chain |-> chain, status |-> 0, states |-> states,
               setCookie |-> <<>>, stateValue |-> <<>>, authorizers |-> <<>>,
               reason |-> "", table |-> <<>>, identity |-> NoUser,
               header |-> chain.header]
      seen == IF "config" \in Range(authz.ran) THEN <<table>> ELSE <<>>
  IN  IF chain.outcome = "panic" THEN base
      ELSE IF chain.outcome = "rejected" THEN [base EXCEPT !.status = 401]
      ELSE IF chain.outcome = "unauthenticated"
      THEN IF created.err THEN [base EXCEPT !.status = 500]
           ELSE [base EXCEPT !.status = 302, !.states = created.store,
                             !.setCookie = created.setCookie,
                             !.stateValue = created.stateValue]
      ELSE IF ~authz.allowed
      THEN [base EXCEPT !.status = 403, !.authorizers = authz.ran,
                        !.reason = authz.reason, !.table = seen]
      ELSE [base EXCEPT !.status = 200, !.authorizers = authz.ran,
                        !.identity = chain.user, !.table = seen]

\* The authorizers are asked about the user of the chain, if it has one.
Authorize(r, chain, created, states, c, table) ==
  Respond(states, chain, created,
          RunAuthorizers(Authorizers(c), r, chain.user, c, table), table)

\* The response and the effects of one request: the chain of
\* authenticators, then a login redirect or the authorizers.
Pipeline(r, states, sessions, c, table, in, nonce, id) ==
  Authorize(r, RunChain(Authenticators(c.Authenticators), r, sessions, c, in),
            CreateState(r, states, c, c.dynamicOidcStateCookieName, nonce, id,
                        in.f = "save"),
            states, c, table)

\* Sessions written by a version that stored no groups, or stored them as
\* another type.
LegacySessions ==
  (<<"v1">> :> ((UserSessionUserID :> StringV("alice")) @@
                (UserSessionOAuth2Tokens :> TokenV("t0")))) @@
  (<<"v2">> :> ((UserSessionUserID :> StringV("carol")) @@
                (UserSessionGroups :> StringV("admins")) @@
                (UserSessionOAuth2Tokens :> TokenV("t0"))))

\* The sessions the store may hold when the service starts: the legacy ones
\* and one written by the callback.
StoredSessions ==
  LegacySessions @@
  (<<"u0">> :> NewUserSession("alice", <<"admins", "eng">>, "t1"))

InitStores == {[k \in K |-> StoredSessions[k]] : K \in SUBSET DOMAIN StoredSessions}

BearerHeaders == {<<>>, <<"Bearer ", "good">>, <<"nouser">>, <<"Bearer ", "bad">>}

\* The requests that carry a session (one stored, one deleted, or none) and
\* a bearer header.
AuthRequests ==
  {Request(<<"/app">>, <<>>, <<"app.example.com">>, <<>>, s, b) :
     s \in {<<>>} \cup DOMAIN store \cup DroppedIDs, b \in BearerHeaders}

AuthFaults == {"none", "get"}

\* What the store and the provider answer on one request: the provider is
\* asked only where the session authenticator revalidates a stored session.
AuthInputs(r, F) ==
  IF /\ cfg.strictSessionValidation
     /\ "session" \in cfg.Authenticators
     /\ r.Session \in DOMAIN store
  THEN {in \in [f : F, userinfo : UserInfoAnswers, providerFails : BOOLEAN] :
          /\ in.f # "none" => in.userinfo = "ok"
          /\ in.providerFails => in.userinfo = "401"}
  ELSE [f : F, userinfo : {"ok"}, providerFails : {FALSE}]

(***************************************************************************)
(* The configAuthorizer's file and its watcher (main.go, the goroutine     *)
(* that reads ca.watcher.Events).                                          *)
(***************************************************************************)
HostA == <<"a.example.com">>
HostB == <<"b.example.com">>

\* The text of a config file: its rule entries in order, or text that is
\* not YAML of the expected shape.
FileA == [wellFormed |-> TRUE, entries |-> <<[host |-> HostA, groups |-> <<"eng">>]>>]
FileB ==
  [wellFormed |-> TRUE,
   entries |-> <<[host |-> HostA, groups |-> <<>>],
                 [host |-> HostB, groups |-> <<wildcardMatcher>>]>>]
FileBad == [wellFormed |-> FALSE, entries |-> <<>>]
ValidContents == {FileA, FileB}
Contents == ValidContents \cup {FileBad}
Missing == [missing |-> TRUE]

EmptyTable == [h \in {} |-> <<>>]

\* ca.parse(raw): the rule table of a text, host by host.
parse(raw) ==
  IF ~raw.wellFormed THEN [err |-> TRUE, table |-> EmptyTable]
  ELSE [err |-> FALSE,
        table |-> [h \in {raw.entries[i].host : i \in 1..Len(raw.entries)} |->
                     raw.entries[CHOOSE i \in 1..Len(raw.entries) :
                                   raw.entries[i].host = h].groups]]

\* loadConfig that clears and refills the live table: the emptied table is
\* visible, then the table with one more entry at a time.
loadConfig_InPlace(f) ==
  IF f = Missing THEN [err |-> TRUE, publishes |-> <<>>]
  ELSE IF parse(f).err THEN [err |-> TRUE, publishes |-> <<>>]
  ELSE [err |-> FALSE,
        publishes |-> <<EmptyTable>> \o
                      [i \in 1..Len(f.entries) |->
                         [h \in {f.entries[j].host : j \in 1..i} |->
                            parse(f).table[h]]]]

\* ca.loadConfig(): reads and parses the file, then replaces the live table
\* by the parsed one.  publishes are the tables the call makes visible to
\* the requests, in order.
loadConfig(f) ==
  IF f = Missing THEN [err |-> TRUE, publishes |-> <<>>]
  ELSE IF parse(f).err THEN [err |-> TRUE, publishes |-> <<>>]
  ELSE [err |-> FALSE, publishes |-> <<parse(f).table>>]

\* The operations an event reports (fsnotify.Op is a set of bits).
Ops == {"Create", "Write", "Chmod", "Remove"}

\* watcher.Add(name): fails when no file has that name.
WatcherAdd(f) == [err |-> f = Missing, armed |-> f # Missing]

\* The loop body that returns when a reload fails.
HandleEvent_ExitOnError(ev, armed, f) ==
  LET add == WatcherAdd(f)
      load == loadConfig(f)
  IN  IF ev.Op = {"Chmod"}
      THEN [readd |-> FALSE, addErr |-> FALSE, armed |-> armed, reload |-> FALSE,
            loadErr |-> FALSE, publishes |-> <<>>, running |-> TRUE,
            calls |-> <<>>]
      ELSE [readd |-> "Remove" \in ev.Op,
            addErr |-> "Remove" \in ev.Op /\ add.err,
            armed |-> IF "Remove" \in ev.Op THEN add.armed ELSE armed,
            reload |-> TRUE, loadErr |-> load.err, publishes |-> load.publishes,
            running |-> ~load.err,
            calls |-> IF "Remove" \in ev.Op THEN <<"Add", "loadConfig">>
                      ELSE <<"loadConfig">>]

\* The loop body that goes back to the select when the re-add fails.
HandleEvent_AddErrorSkipsReload(ev, armed, f) ==
  LET add == WatcherAdd(f)
      load == loadConfig(f)
  IN  IF ev.Op = {"Chmod"} \/ ("Remove" \in ev.Op /\ add.err)
      THEN [readd |-> "Remove" \in ev.Op, addErr |-> "Remove" \in ev.Op,
            armed |-> armed, reload |-> FALSE,
            loadErr |-> FALSE, publishes |-> <<>>, running |-> TRUE,
            calls |-> IF "Remove" \in ev.Op THEN <<"Add">> ELSE <<>>]
      ELSE [readd |-> "Remove" \in ev.Op,
            addErr |-> FALSE,
            armed |-> IF "Remove" \in ev.Op THEN add.armed ELSE armed,
            reload |-> TRUE, loadErr |-> load.err, publishes |-> load.publishes,
            running |-> TRUE,
            calls |-> IF "Remove" \in ev.Op THEN <<"Add", "loadConfig">>
                      ELSE <<"loadConfig">>]

\* One turn of the watcher's loop on the event ev: what it does to the
\* watch and to the table, and the calls it makes, in their order.  Errors
\* are logged, and the loop goes on.
HandleEvent(ev, armed, f) ==
  LET add == WatcherAdd(f)
      load == loadConfig(f)
  IN  IF ev.Op = {"Chmod"}
      THEN [readd |-> FALSE, addErr |-> FALSE, armed |-> armed, reload |-> FALSE,
            loadErr |-> FALSE, publishes |-> <<>>, running |-> TRUE,
            calls |-> <<>>]
      ELSE [readd |-> "Remove" \in ev.Op,
            addErr |-> "Remove" \in ev.Op /\ add.err,
            armed |-> IF "Remove" \in ev.Op THEN add.armed ELSE armed,
            reload |-> TRUE, loadErr |-> load.err, publishes |-> load.publishes,
            running |-> TRUE,
            calls |-> IF "Remove" \in ev.Op THEN <<"Add", "loadConfig">>
                      ELSE <<"loadConfig">>]

\* The watch before the server starts, and once main has added the path.
NoWatch ==
  [armed |-> FALSE, events |-> <<>>, task |-> "none", pending |-> <<>>,
   before |-> EmptyTable, after |-> EmptyTable, failed |-> FALSE,
   recreated |-> FALSE, closed |-> FALSE]

NewWatch(table) ==
  [armed |-> TRUE, events |-> <<>>, task |-> "select", pending |-> <<>>,
   before |-> table, after |-> table, failed |-> FALSE, recreated |-> FALSE,
   closed |-> FALSE]

(***************************************************************************)
(* The requests, as steps of the server.                                   *)
(***************************************************************************)
\* One request to the authenticate handler, from the requests R: the client
\* keeps the cookie a login redirect sets.
AuthenticateHandler(F, R) ==
 /\ Listening /\ router("other", FALSE, boot.isReady) = "authenticate"
 /\ \E r \in R :
    \E in \in AuthInputs(r, F) :
      \E unauth \in {RunChain(Authenticators(cfg.Authenticators), r, store, cfg,
                              in).outcome = "unauthenticated"} :
        /\ unauth => Cardinality(DOMAIN issued) < MaxIssued
        /\ \E nonce \in IF unauth /\ cfg.dynamicOidcStateCookieName
                        THEN Nonces ELSE {CHOOSE n \in Nonces : TRUE} :
            \E id \in {<<FreshID(StateIDNames, DOMAIN issued)>>} :
             \E p \in {Pipeline(r, stateStore, store, cfg, rules, in, <<nonce>>, id)} :
               /\ stateStore' = p.states
               /\ store' = p.chain.sessions
               /\ jar' = IF p.status = 302 THEN SetCookie(jar, p.setCookie) ELSE jar
               /\ issued' = IF p.status # 302 THEN issued
                            ELSE StorePut(issued, id,
                                   [param |-> p.stateValue,
                                    cookie |-> p.setCookie[1],
                                    request |-> [URL |-> r.URL, Host |-> r.Host,
                                                 SchemeHeader |-> r.SchemeHeader],
                                    url |-> p.states[id].FirstVisitedURL,
                                    touched |-> FALSE])
               /\ dropped' = dropped \cup
                             {<<s, "revoked">> :
                                s \in DOMAIN store \ DOMAIN p.chain.sessions}
               /\ last' = [op |-> "authenticate", req |-> r,
                           outcome |-> p.chain.outcome, user |-> p.chain.user,
                           by |-> p.chain.by, tried |-> p.chain.tried,
                           status |-> p.status, stateValue |-> p.stateValue,
                           id |-> IF p.status = 302 THEN id ELSE <<>>,
                           authorizers |-> p.authorizers, reason |-> p.reason,
                           table |-> p.table, identity |-> p.identity,
                           header |-> p.header]
               /\ UNCHANGED <<cfg, boot, okReqs, authzVars>>

\* A request without credentials: it starts a login.
Login(F) == AuthenticateHandler(F \cap {"none", "save"}, LoginRequests)

\* The 20-minute MaxAge of a state record passes: the store drops it.
ExpireState ==
  /\ \E id \in DOMAIN stateStore :
       /\ stateStore' = StoreDelete(stateStore, id)
       /\ issued' = [issued EXCEPT ![id].touched = TRUE]
       /\ last' = [op |-> "expire", id |-> id]
  /\ UNCHANGED <<cfg, boot, store, jar, okReqs, dropped, authzVars>>

\* The faults that can show on a callback request: the store fails only
\* where the request gets as far as reading it.
CallbackFaults(r, F) ==
  IF VerifyState(r, stateStore, cfg.dynamicOidcStateCookieName, "none").storeRead
  THEN F ELSE F \cap {"none"}

OIDCCallback(F) ==
 /\ Listening /\ router("callback", FALSE, boot.isReady) = "callback" /\ Configured
 /\ \E r \in CallbackRequests :
   \E f \in CallbackFaults(r, F) :
    \E p \in ProviderAnswers(r, f) :
       LET newID == <<FreshID(SessionIDNames, DOMAIN store \cup DroppedIDs)>>
           c == Callback(r, stateStore, store, cfg.dynamicOidcStateCookieName,
                         f, p.exchange, p.claims, newID)
       IN  /\ stateStore' = c.states
           /\ store' = c.sessions
           /\ issued' = [id \in DOMAIN issued |->
                           [issued[id] EXCEPT
                              !.touched = \/ @
                                          \/ r.State = issued[id].param
                                          \/ id \in DOMAIN stateStore \ DOMAIN c.states]]
           /\ okReqs' = IF c.verify = "OK" THEN okReqs \cup {r} ELSE okReqs
           /\ last' = [op |-> "callback", req |-> r, verify |-> c.verify,
                       state |-> c.state, status |-> c.status,
                       location |-> c.location, exchanged |-> c.exchanged,
                       created |-> c.created, isReady |-> boot.isReady]
           /\ UNCHANGED <<cfg, boot, jar, dropped, authzVars>>

\* The MaxAge of a user session passes: the store drops it.
ExpireSession ==
  /\ \E id \in DOMAIN store :
       /\ store' = StoreDelete(store, id)
       /\ dropped' = dropped \cup {<<id, "expired">>}
       /\ last' = [op |-> "expireSession", id |-> id]
  /\ UNCHANGED <<cfg, boot, loginVars, authzVars>>

(***************************************************************************)
(* The config file and the watcher task, as steps.                         *)
(***************************************************************************)
\* The kernel reports an operation on the watched file, if it is watched.
Notify(w, op) ==
  IF w.armed /\ op \in Ops THEN [w EXCEPT !.events = Append(@, [Op |-> {op}])] ELSE w

CanNotify == watch.armed => Len(watch.events) < MaxEvents

\* The file is rewritten with another text.
WriteFile ==
  /\ file # Missing /\ CanNotify
  /\ \E c \in Contents \ {file} :
       /\ file' = c
       /\ watch' = Notify(watch, "Write")
       /\ last' = [op |-> "write"]
  /\ UNCHANGED <<cfg, boot, loginVars, store, dropped, rules>>

\* The file's mode or times change.
ChmodFile ==
  /\ file # Missing /\ CanNotify
  /\ watch' = Notify(watch, "Chmod")
  /\ last' = [op |-> "chmod"]
  /\ UNCHANGED <<cfg, boot, loginVars, store, dropped, rules, file>>

\* The file is removed: the watcher reports it and stops watching the file.
RemoveFile ==
  /\ file # Missing /\ CanNotify
  /\ file' = Missing
  /\ watch' = [Notify(watch, "Remove") EXCEPT !.armed = FALSE]
  /\ last' = [op |-> "remove"]
  /\ UNCHANGED <<cfg, boot, loginVars, store, dropped, rules>>

\* A file is created under the removed file's name.
CreateFile ==
  /\ file = Missing /\ CanNotify
  /\ \E c \in Contents :
       /\ file' = c
       /\ watch' = [Notify(watch, "Create") EXCEPT !.recreated = TRUE]
       /\ last' = [op |-> "create"]
  /\ UNCHANGED <<cfg, boot, loginVars, store, dropped, rules>>

\* The watcher task receives an event and handles it, up to the point where
\* a reload has the table to store.
WatcherStep ==
  /\ watch.task = "select" /\ watch.events # <<>>
  /\ LET ev == Head(watch.events)
         h == HandleEvent(ev, watch.armed, file)
     IN  /\ watch' = [watch EXCEPT
                        !.events = Tail(@),
                        !.armed = h.armed,
                        !.pending = h.publishes,
                        !.task = IF ~h.running THEN "stopped"
                                 ELSE IF h.publishes # <<>> THEN "store"
                                 ELSE "select",
                        !.before = IF h.reload /\ ~h.loadErr THEN rules ELSE @,
                        !.after = IF h.reload /\ ~h.loadErr
                                  THEN parse(file).table ELSE @,
                        !.failed = @ \/ (h.reload /\ h.loadErr)]
         /\ last' = [op |-> "watch", ev |-> ev, readd |-> h.readd,
                     addErr |-> h.addErr, reload |-> h.reload,
                     loadErr |-> h.loadErr, calls |-> h.calls]
  /\ UNCHANGED <<cfg, boot, loginVars, store, dropped, rules, file>>

\* The reload stores a table.
WatcherStore ==
  /\ watch.task = "store"
  /\ rules' = Head(watch.pending)
  /\ watch' = [watch EXCEPT !.pending = Tail(@),
                            !.task = IF Tail(watch.pending) = <<>> THEN "select"
                                     ELSE "store"]
  /\ last' = [op |-> "store"]
  /\ UNCHANGED <<cfg, boot, loginVars, store, dropped, file>>

\* The watcher task receives an error from ca.watcher.Errors: it logs it and
\* goes round the loop.
WatcherError ==
  /\ watch.task = "select" /\ ~watch.closed
  /\ last' = [op |-> "watchError"]
  /\ UNCHANGED <<cfg, boot, loginVars, store, dropped, rules, file, watch>>

\* ca.watcher.Close(), deferred in main: the watch is removed and both
\* channels are closed; events not yet received are dropped.
CloseWatcher ==
  /\ watch.task # "none" /\ ~watch.closed
  /\ watch' = [watch EXCEPT !.closed = TRUE, !.armed = FALSE, !.events = <<>>]
  /\ last' = [op |-> "close"]
  /\ UNCHANGED <<cfg, boot, loginVars, store, dropped, rules, file>>

\* The watcher task receives from a closed channel (ok is false): it returns.
WatcherReturn ==
  /\ watch.task = "select" /\ watch.closed
  /\ watch' = [watch EXCEPT !.task = "stopped"]
  /\ last' = [op |-> "return"]
  /\ UNCHANGED <<cfg, boot, loginVars, store, dropped, rules, file>>

(***************************************************************************)
(* Start-up, as steps.                                                     *)
(***************************************************************************)
\* main takes its next step.
MainStep ==
  /\ boot.pc \notin {"wait", "exit"}
  /\ \E ok \in Outcomes(boot.pc) :
       /\ boot' = mainStep(boot, ok)
       /\ last' = [op |-> "main", pc |-> boot.pc, ok |-> ok]
  /\ UNCHANGED <<cfg, loginVars, store, dropped, authzVars>>

\* http.ListenAndServe returns in one of the goroutines: log.Fatal.
ListenFails ==
  /\ boot.probe \/ boot.server
  /\ boot.pc # "exit"
  /\ boot' = Exit(boot)
  /\ last' = [op |-> "listenFails", pc |-> boot.pc]
  /\ UNCHANGED <<cfg, loginVars, store, dropped, authzVars>>

\* A request that the middleware holds or answers, or that reaches the
\* callback or the logout handler while fields of the server are not yet
\* assigned: the handler runs on what the server holds (nil stores).
RouteRequest ==
  /\ Listening
  /\ \E route \in Routes : \E skipListed \in BOOLEAN :
       LET h == router(route, skipListed, boot.isReady)
       IN  /\ skipListed => route = "other"
           /\ h \in {"held", "skip"} \/ (h \in {"callback", "logout"} /\ ~Configured)
           /\ last' = [op |-> "route", route |-> route, ran |-> h,
                       isReady |-> boot.isReady, fields |-> boot.fields]
  /\ UNCHANGED <<cfg, boot, loginVars, store, dropped, authzVars>>

\* The logout handler on a configured server: it revokes the session of the
\* request, if it names one.
Logout ==
  /\ Listening /\ router("logout", FALSE, boot.isReady) = "logout" /\ Configured
  /\ \E id \in DOMAIN store \cup {<<>>} : \E providerFails \in BOOLEAN :
       /\ providerFails => id \in DOMAIN store
       /\ store' = IF id \in DOMAIN store
                   THEN RevokeSession(store, [ID |-> id], providerFails).sessions
                   ELSE store
       /\ dropped' = IF id \in DOMAIN store
                     THEN dropped \cup {<<id, "revoked">>} ELSE dropped
       /\ last' = [op |-> "logout", session |-> id,
                   revoked |-> id \in DOMAIN store,
                   isReady |-> boot.isReady]
  /\ UNCHANGED <<cfg, boot, loginVars, authzVars>>
(***************************************************************************)
(* The specifications.                                                     *)
(***************************************************************************)
\* No login has started and no callback has been served.
NoLogins ==
  /\ stateStore = EmptyStore
  /\ jar = EmptyJar
  /\ issued = [k \in {} |-> NoState]
  /\ okReqs = {}
  /\ dropped = {}
  /\ last = [op |-> "none"]

\* The server runs the groupsAuthorizer: there is no file to watch.
NoConfigFile ==
  /\ rules = EmptyTable
  /\ file = Missing
  /\ watch = NoWatch

\* newConfigAuthorizer has loaded the file and main has added the watch.
ConfigFileLoaded ==
  /\ file \in ValidContents
  /\ rules = parse(file).table
  /\ watch = NewWatch(rules)

\* The login flow: logins, callbacks and the expiry of state records.
Init ==
  /\ boot = Started
  /\ cfg \in {c \in DefaultConfigs : ~c.strictSessionValidation}
  /\ store = EmptyStore
  /\ NoLogins
  /\ NoConfigFile

Next == Login(NoFaults) \/ OIDCCallback(NoFaults) \/ ExpireState

NextFaults == Login(AnyFaults) \/ OIDCCallback(AnyFaults) \/ ExpireState

Spec == Init /\ [][Next]_vars

SpecFaults == Init /\ [][NextFaults]_vars

\* Requests with sessions and ID tokens.
InitAuth ==
  /\ boot = Started
  /\ cfg \in {c \in DefaultConfigs :
               ~c.dynamicOidcStateCookieName /\ c.SessionDomain = <<>>}
  /\ store \in InitStores
  /\ NoLogins
  /\ NoConfigFile

NextAuth == AuthenticateHandler(NoFaults, AuthRequests) \/ ExpireSession

NextAuthFaults == AuthenticateHandler(AuthFaults, AuthRequests) \/ ExpireSession

SpecAuth == InitAuth /\ [][NextAuth]_vars

SpecAuthFaults == InitAuth /\ [][NextAuthFaults]_vars

\* The chain of authenticators, for every set of enabled authenticators.
ChainConfigs ==
  {c \in Configs :
     /\ ~c.dynamicOidcStateCookieName /\ ~c.strictSessionValidation
     /\ c.SessionDomain = <<>>
     /\ c.AuthzConfigPath = <<>> /\ c.GroupsAllowlist = <<wildcardMatcher>>}

ChainBearers ==
  BearerHeaders \cup {<<"Bearer ", "opaque">>, <<"Bearer ", "sa">>, <<"good", Space>>}

ChainRequests ==
  {Request(<<"/app">>, <<>>, <<"app.example.com">>, <<>>, s, b) :
     s \in {<<>>} \cup DOMAIN store \cup DroppedIDs, b \in ChainBearers}

InitChain ==
  /\ boot = Started
  /\ cfg \in ChainConfigs
  /\ store = [k \in {<<"u0">>} |-> StoredSessions[k]]
  /\ NoLogins
  /\ NoConfigFile

NextChain == AuthenticateHandler(NoFaults, ChainRequests) \/ ExpireSession

SpecChain == InitChain /\ [][NextChain]_vars

\* The authorizers, for every allowlist and for a rule table.
AuthzConfigs ==
  {c \in Configs :
     /\ ~c.dynamicOidcStateCookieName /\ ~c.strictSessionValidation
     /\ c.SessionDomain = <<>> /\ c.TokenScheme = <<"Bearer">>
     /\ c.Authenticators = {"session", "idtoken"}
     /\ c.AuthzConfigPath # <<>> => c.GroupsAllowlist = <<>>}

AuthzSessions ==
  (<<"u0">> :> NewUserSession("alice", <<"admins", "eng">>, "t1")) @@
  (<<"u5">> :> NewUserSession("dave", <<"admins">>, "t1"))

AuthzRequests ==
  {Request(<<"/app">>, <<>>, h, <<>>, s, b) :
     h \in {HostA, HostB}, s \in {<<>>} \cup DOMAIN store,
     b \in {<<>>, <<"Bearer ", "good">>, <<"nouser">>}}

InitAuthz ==
  /\ boot = Started
  /\ cfg \in AuthzConfigs
  /\ store = AuthzSessions
  /\ NoLogins
  /\ IF cfg.AuthzConfigPath = <<>> THEN NoConfigFile ELSE ConfigFileLoaded

NextAuthz == AuthenticateHandler(NoFaults, AuthzRequests) \/ ExpireState

SpecAuthz == InitAuthz /\ [][NextAuthz]_vars

\* The configAuthorizer while its file changes.
WatchRequests ==
  {Request(<<"/app">>, <<>>, h, <<>>, <<>>, b) :
     h \in {HostA, HostB}, b \in {<<"Bearer ", "good">>, <<"nouser">>}}

InitWatch ==
  /\ boot = Started
  /\ cfg \in {c \in AuthzConfigs : c.AuthzConfigPath # <<>>}
  /\ store = EmptyStore
  /\ NoLogins
  /\ ConfigFileLoaded

FileStep == WriteFile \/ ChmodFile \/ RemoveFile \/ CreateFile

NextWatch ==
  \/ FileStep
  \/ WatcherStep
  \/ WatcherStore
  \/ AuthenticateHandler(NoFaults, WatchRequests)

SpecWatch == InitWatch /\ [][NextWatch]_vars

\* The watcher task is scheduled whenever it has something to do; nothing
\* is assumed of the file or of the requests.
SpecWatchFair ==
  /\ InitWatch
  /\ [][NextWatch]_vars
  /\ WF_vars(WatcherStep)
  /\ WF_vars(WatcherStore)

\* The watcher with its error channel and with the deferred Close of main.
NextWatchClose ==
  \/ NextWatch
  \/ WatcherError
  \/ CloseWatcher
  \/ WatcherReturn

SpecWatchClose == InitWatch /\ [][NextWatchClose]_vars

\* Start-up: main from its first line, with the requests that arrive while
\* it runs and after it.
InitStartup ==
  /\ boot = NotStarted
  /\ cfg \in {c \in DefaultConfigs :
               /\ ~c.strictSessionValidation
               /\ ~c.dynamicOidcStateCookieName
               /\ c.SessionDomain = <<>>}
  /\ store = EmptyStore
  /\ NoLogins
  /\ NoConfigFile

NextStartup ==
  \/ MainStep
  \/ ListenFails
  \/ RouteRequest
  \/ Login(NoFaults)
  \/ OIDCCallback(NoFaults)
  \/ Logout

SpecStartup == InitStartup /\ [][NextStartup]_vars

\* main is scheduled until it waits on stopCh or the process ends; nothing
\* is assumed of the provider or of the requests.
SpecStartupFair == InitStartup /\ [][NextStartup]_vars /\ WF_vars(MainStep)

(***************************************************************************)
(* Vocabulary of the properties.                                           *)
(***************************************************************************)
HasDot(p) == \E i \in 1..Len(p) : p[i] = Dot
FirstDot(p) == CHOOSE i \in 1..Len(p) : p[i] = Dot /\ \A j \in 1..(i - 1) : p[j] # Dot
AfterFirstDot(p) == SubSeq(p, FirstDot(p) + 1, Len(p))

\* The session-identifier part of a state parameter: the parameter itself,
\* or with dynamic naming the text before its first ".".
IdPart(p) ==
  IF cfg.dynamicOidcStateCookieName /\ HasDot(p) THEN SubSeq(p, 1, FirstDot(p) - 1)
  ELSE p

\* The nonce part: the text between the first "." and the next one.
NoncePart(p) ==
  LET rest == AfterFirstDot(p)
  IN  IF HasDot(rest) THEN SubSeq(rest, 1, FirstDot(rest) - 1) ELSE rest

\* Whether the parameter names a state cookie: always without dynamic
\* naming, and with it when the parameter holds a nonce part.
NamesCookie(p) == cfg.dynamicOidcStateCookieName => HasDot(p)

\* The name of the state cookie that belongs to a parameter.
CookieNameOf(p) ==
  IF cfg.dynamicOidcStateCookieName THEN oidcStateCookie \o <<"_">> \o NoncePart(p)
  ELSE oidcStateCookie

\* The request carries the state cookie its parameter names.
CarriesCookie(r) == NamesCookie(r.State) /\ CookieNameOf(r.State) \in DOMAIN r.Cookies
CookieOf(r) == r.Cookies[CookieNameOf(r.State)]

\* The request presents the state value and the cookie issued for id.
Presents(r, id) ==
  /\ r.State = issued[id].param
  /\ issued[id].cookie \in DOMAIN r.Cookies
  /\ r.Cookies[issued[id].cookie] = id

\* The state identifiers a verify has accepted.
Accepted == {CookieOf(r) : r \in okReqs}

\* This step handles a callback request.
CallbackStep == last'.op = "callback"

(***************************************************************************)
(* C1: a state verifies at most once; a callback that repeats the          *)
(* parameter and the cookies of a callback whose state verified ends       *)
(* Expired.                                                                *)
(***************************************************************************)
C1_StateSingleUse ==
  [][CallbackStep =>
       /\ last'.verify = "OK" => CookieOf(last'.req) \notin Accepted
       /\ last'.req \in okReqs => last'.verify = "Expired"]_vars

C1_Witness ==
  /\ last.op = "callback"
  /\ last.req \in okReqs
  /\ last.verify = "Expired"

(***************************************************************************)
(* C2, as stated: whenever the state cookie's value differs from the       *)
(* value of the state parameter, verification ends Mismatch and returns    *)
(* no State.                                                               *)
(***************************************************************************)
C2_AsStated ==
  (/\ last.op = "callback"
   /\ last.req.State # <<>>
   /\ CarriesCookie(last.req)
   /\ CookieOf(last.req) # last.req.State)
  => last.verify = "Mismatch" /\ last.state = NoState

(***************************************************************************)
(* C2, amended: whenever the state cookie's value differs from the         *)
(* session-identifier part of a non-empty state parameter, verification    *)
(* ends Mismatch and returns no State, whether or not a record is stored   *)
(* for either value.                                                       *)
(***************************************************************************)
C2_MismatchDetected ==
  (/\ last.op = "callback"
   /\ last.req.State # <<>>
   /\ CarriesCookie(last.req)
   /\ CookieOf(last.req) # IdPart(last.req.State))
  => last.verify = "Mismatch" /\ last.state = NoState

C2_Witness ==
  /\ last.op = "callback"
  /\ CarriesCookie(last.req)
  /\ CookieOf(last.req) # IdPart(last.req.State)
  /\ CookieOf(last.req) \in DOMAIN stateStore
  /\ IdPart(last.req.State) \in DOMAIN stateStore
  /\ last.verify = "Mismatch"

(***************************************************************************)
(* C3, as stated: after a verification for a state value that has a        *)
(* stored record, the record is gone, whatever the outcome.                *)
(***************************************************************************)
C3_AsStated ==
  [][CallbackStep =>
       \A id \in DOMAIN stateStore :
         IdPart(last'.req.State) = id => id \notin DOMAIN stateStore']_vars

(***************************************************************************)
(* C3, amended: a verification that succeeds deletes the state's record;   *)
(* one that fails deletes nothing.                                         *)
(***************************************************************************)
C3_DeletedOnSuccessOnly ==
  [][CallbackStep =>
       IF last'.verify = "OK"
       THEN /\ CookieOf(last'.req) \in DOMAIN stateStore
            /\ stateStore' = StoreDelete(stateStore, CookieOf(last'.req))
       ELSE stateStore' = stateStore]_vars

C3_Witness ==
  /\ last.op = "callback"
  /\ last.verify \in {"MissingCookie", "Mismatch"}
  /\ IdPart(last.req.State) \in DOMAIN stateStore

(***************************************************************************)
(* C4: a callback that presents the state value CreateState returned and   *)
(* the cookie it set, before the record expires and with no verification   *)
(* of that state value in between, verifies and returns the State stored   *)
(* at issue time; in relative-URL mode its URL is the path and query of    *)
(* the request that started the login.                                     *)
(***************************************************************************)
PathAndQuery(u) ==
  IF u.RawQuery = <<>> THEN u.Path ELSE u.Path \o <<"?">> \o u.RawQuery

C4_RoundTrip ==
  [][CallbackStep =>
       \A id \in DOMAIN issued :
         (Presents(last'.req, id) /\ ~issued[id].touched) =>
           /\ last'.verify = "OK"
           /\ last'.state # NoState
           /\ last'.state.FirstVisitedURL = issued[id].url
           /\ cfg.SessionDomain = <<>> =>
                last'.state.FirstVisitedURL = PathAndQuery(issued[id].request.URL)]_vars

C4_Witness ==
  /\ last.op = "callback"
  /\ last.verify = "OK"
  /\ cfg.SessionDomain = <<>>
  /\ last.state # NoState
  /\ last.state.FirstVisitedURL = <<"/app", "?", "x=1">>

(***************************************************************************)
(* C5: with dynamic naming, two states issued with distinct nonces whose   *)
(* cookies the client holds both verify, each exactly once and in either   *)
(* order, and verifying one leaves the other's record as it is.            *)
(***************************************************************************)
Concurrent(i, j) ==
  /\ cfg.dynamicOidcStateCookieName
  /\ i # j
  /\ NoncePart(issued[i].param) # NoncePart(issued[j].param)

\* No other state was issued with the nonce of state i: the browser still
\* holds every cookie it was sent for i.
NonceUnshared(i) ==
  \A k \in DOMAIN issued \ {i} : NoncePart(issued[k].param) # NoncePart(issued[i].param)

C5_ConcurrentLogins ==
  [][CallbackStep =>
       \A i, j \in DOMAIN issued :
         (/\ Concurrent(i, j)
          /\ NonceUnshared(i)
          /\ last'.req.Cookies = jar
          /\ last'.req.State = issued[i].param) =>
           /\ last'.verify = "OK" <=> i \in DOMAIN stateStore
           /\ last'.verify = "OK" => i \notin DOMAIN stateStore'
           /\ j \in DOMAIN stateStore =>
                j \in DOMAIN stateStore' /\ stateStore'[j] = stateStore[j]]_vars

C5_Witness ==
  /\ last.op = "callback"
  /\ last.verify = "OK"
  /\ \E i, j \in DOMAIN issued :
       /\ Concurrent(i, j)
       /\ last.req.State = issued[i].param
       /\ i = <<"s1">>
       /\ j \in Accepted
       /\ i \in Accepted

(***************************************************************************)
(* C6: a user session is stored only by a callback whose state verified;   *)
(* a callback whose verification fails answers 401, exchanges no code and  *)
(* stores no session; a callback that succeeds answers 302 with the        *)
(* FirstVisitedURL of the verified state.                                  *)
(***************************************************************************)
VerifyErrors ==
  {"MissingParameter", "MissingCookie", "Mismatch", "StoreError", "Expired",
   "RevokeError"}

C6_SessionOnlyAfterVerify ==
  /\ [](last.op = "callback" =>
          /\ last.verify \in VerifyErrors => last.status = 401
          /\ last.verify # "OK" => ~last.exchanged /\ last.created = <<>>
          /\ last.status = 302 => last.verify = "OK" /\ last.created # <<>>)
  /\ [][/\ store' # store =>
             /\ CallbackStep
             /\ last'.verify = "OK"
             /\ DOMAIN store' = DOMAIN store \cup {last'.created}
        /\ (CallbackStep /\ last'.status = 302) =>
             /\ CookieOf(last'.req) \in DOMAIN stateStore
             /\ last'.location = stateStore[CookieOf(last'.req)].FirstVisitedURL
             /\ last'.location = issued[IdPart(last'.req.State)].url]_vars

C6_Witness ==
  /\ last.op = "callback"
  /\ last.status = 302
  /\ last.created \in DOMAIN store

(***************************************************************************)
(* Vocabulary of the properties on the authenticate handler.               *)
(***************************************************************************)
\* A step that handles a request to authenticate.
AuthStep == last'.op = "authenticate"

\* What the session authenticator returned for the last request: it is the
\* first of the chain.
SA == last.tried[1]

PassThrough(t) == t.user = NoUser /\ ~t.handled /\ t.err = "nil" /\ ~t.panic

\* The UserInfo call of the last request failed other than by a 401.
UserInfoFailed(t) == t.userInfo \in {"500", "transport"}

(***************************************************************************)
(* C7: with strict validation, when the provider answers 401 to the        *)
(* UserInfo call for a session, the session authenticator passes through   *)
(* (no user, not handled, no error), the session's record is gone when it  *)
(* returns, and every later request with that session passes through too.  *)
(***************************************************************************)
C7_StrictRevalidation ==
  [][AuthStep =>
       /\ (cfg.strictSessionValidation /\ SA'.userInfo = "401") =>
            /\ PassThrough(SA')
            /\ last'.req.Session \in DOMAIN store
            /\ last'.req.Session \notin DOMAIN store'
            /\ <<last'.req.Session, "revoked">> \in dropped'
       /\ (SA'.session = "found" /\ SA'.userInfo # "401") =>
            last'.req.Session \in DOMAIN store'
       /\ last'.req.Session \in DroppedIDs =>
            PassThrough(SA') /\ SA'.session = "new"]_vars

C7_Witness ==
  /\ last.op = "authenticate"
  /\ cfg.strictSessionValidation
  /\ <<last.req.Session, "revoked">> \in dropped
  /\ SA.session = "new"
  /\ PassThrough(SA)
  /\ store # EmptyStore

(***************************************************************************)
(* C8: with strict validation, when the UserInfo call fails other than by  *)
(* a 401, the session authenticator returns an error and no user, no       *)
(* later authenticator authenticates the request, and the session's        *)
(* record stays as it is.                                                  *)
(***************************************************************************)
C8_DefinitiveError ==
  [][(AuthStep /\ cfg.strictSessionValidation /\ UserInfoFailed(SA')) =>
       /\ SA'.err # "nil"
       /\ SA'.user = NoUser
       /\ last'.outcome # "authenticated"
       /\ store' = store]_vars

(***************************************************************************)
(* C9: whenever the store reports a new session, the session               *)
(* authenticator passes through and the provider's UserInfo is not         *)
(* called, with strict validation on or off.                               *)
(***************************************************************************)
C9_NewSessionPassThrough ==
  (last.op = "authenticate" /\ SA.session = "new") =>
     PassThrough(SA) /\ SA.userInfo = "none"

C9_Witness ==
  /\ last.op = "authenticate"
  /\ cfg.strictSessionValidation
  /\ SA.session = "new"
  /\ last.req.Session \in DroppedIDs
  /\ last.outcome = "authenticated"

(***************************************************************************)
(* C10, as stated: for every session the store returns whose record has no *)
(* groups that are a list of strings, the session authenticator returns    *)
(* handled with the stored userID as name, no groups and no error; with    *)
(* such groups stored, the user's groups are the stored ones.              *)
(***************************************************************************)
StoredGroups(values) ==
  IF UserSessionGroups \in DOMAIN values /\ values[UserSessionGroups].type = "[]string"
  THEN values[UserSessionGroups].val
  ELSE <<>>

C10_AsStated ==
  [][(AuthStep /\ SA'.session = "found") =>
       /\ SA'.handled
       /\ SA'.err = "nil"
       /\ SA'.user # NoUser
       /\ SA'.user.Name = store[last'.req.Session][UserSessionUserID].val
       /\ SA'.user.Groups = StoredGroups(store[last'.req.Session])]_vars

(***************************************************************************)
(* C10, amended: the same, for every session the store returns when strict *)
(* validation is off or the UserInfo call succeeds.                        *)
(***************************************************************************)
C10_GroupDefault ==
  [][(/\ AuthStep
      /\ SA'.session = "found"
      /\ (~cfg.strictSessionValidation \/ SA'.userInfo = "ok")) =>
       /\ SA'.handled
       /\ SA'.err = "nil"
       /\ SA'.user # NoUser
       /\ SA'.user.Name = store[last'.req.Session][UserSessionUserID].val
       /\ SA'.user.Groups = StoredGroups(store[last'.req.Session])
       /\ last'.outcome = "authenticated" /\ last'.user = SA'.user]_vars

C10_Witness ==
  /\ last.op = "authenticate"
  /\ cfg.strictSessionValidation
  /\ SA.session = "found"
  /\ last.req.Session \in {<<"v1">>, <<"v2">>}
  /\ SA.handled
  /\ SA.user.Groups = <<>>

(***************************************************************************)
(* Vocabulary of the properties on the chain and on the pipeline.          *)
(***************************************************************************)
\* The order of the authenticators: Kubernetes, session, ID token.
KSI == <<"kubernetes", "session", "idtoken">>
Rank(a) == CHOOSE i \in 1..Len(KSI) : KSI[i] = a

\* The names of the authenticators the last request was given to, in order.
TriedNames == [i \in 1..Len(last.tried) |-> last.tried[i].name]

\* What the store and the provider answer when nothing fails.
NoFailure == [f |-> "none", userinfo |-> "ok", providerFails |-> FALSE]

\* An authenticator's answer is an identity: handled, and no error.
Identity(a) == a.handled /\ a.err = "nil" /\ a.user # NoUser

(***************************************************************************)
(* C11: the chain gives a request to the enabled authenticators in the     *)
(* order Kubernetes, session, ID token, up to the first that handles it;   *)
(* the result is that authenticator's identity; the request is             *)
(* unauthenticated if and only if every enabled authenticator passed it    *)
(* on; and where Kubernetes and session pass a request on and ID token     *)
(* returns an identity, the chain returns that identity in either order of *)
(* Kubernetes and session.                                                 *)
(***************************************************************************)
C11_AuthenticatorOrdering ==
  /\ last.op = "authenticate" =>
       LET n == Len(last.tried)
       IN  /\ \A i \in 1..n : TriedNames[i] \in cfg.Authenticators
           /\ \A i, j \in 1..n : i < j => Rank(TriedNames[i]) < Rank(TriedNames[j])
           /\ \A a \in cfg.Authenticators :
                (n > 0 /\ Rank(a) < Rank(TriedNames[n])) => a \in Range(TriedNames)
           /\ \A i \in 1..(n - 1) : ~last.tried[i].handled
           /\ last.outcome = "authenticated" <=> (n > 0 /\ last.tried[n].handled)
           /\ last.outcome = "authenticated" =>
                last.user = last.tried[n].user /\ last.by = TriedNames[n]
           /\ last.outcome = "unauthenticated" <=>
                /\ Range(TriedNames) = cfg.Authenticators
                /\ \A i \in 1..n : ~last.tried[i].handled
           /\ last.outcome = "unauthenticated" => last.user = NoUser
  /\ \A r \in ChainRequests :
       LET k == RunAuthenticator("kubernetes", r, store, cfg, NoFailure)
           s == RunAuthenticator("session", r, store, cfg, NoFailure)
           i == RunAuthenticator("idtoken", r, store, cfg, NoFailure)
       IN  (PassThrough(k) /\ PassThrough(s) /\ Identity(i)) =>
             \A order \in {<<"kubernetes", "session", "idtoken">>,
                            <<"session", "kubernetes", "idtoken">>} :
               LET c == RunChain(order, r, store, cfg, NoFailure)
               IN  c.outcome = "authenticated" /\ c.user = i.user /\ c.by = "idtoken"

\* Kubernetes and session have passed a request on, and ID token has
\* returned its identity.
C11_Witness ==
  /\ last.op = "authenticate"
  /\ TriedNames = KSI
  /\ PassThrough(last.tried[1]) /\ PassThrough(last.tried[2])
  /\ last.outcome = "authenticated" /\ last.by = "idtoken"
  /\ last.user = last.tried[3].user

\* A list of allowed groups allows a user: it holds the wildcard, or one of
\* the user's groups.
GroupsAllow(list, user) ==
  wildcardMatcher \in Range(list) \/ Range(user.Groups) \cap Range(list) # {}

\* The configured authorizer allows the user on the request r.
Allowed(r, user) ==
  IF cfg.AuthzConfigPath # <<>>
  THEN r.Host \in DOMAIN rules /\ GroupsAllow(rules[r.Host], user)
  ELSE GroupsAllow(cfg.GroupsAllowlist, user)

C16_GroupsAuthorizer ==
  /\ (last.op = "authenticate" /\ last.authorizers = <<"groups">>) =>
       /\ last.status = 200 <=> GroupsAllow(cfg.GroupsAllowlist, last.user)
       /\ cfg.GroupsAllowlist = <<>> => last.status = 403
       /\ (cfg.GroupsAllowlist = <<wildcardMatcher>> /\ last.user.Groups = <<>>) =>
            last.status = 200
  /\ \A allowlist \in Allowlists \cup {<<"a", "b", "c">>} :
       \A groups \in {<<>>, <<"a">>, <<"c", "d">>, <<"d", "e">>, <<"admins">>,
                       <<"admins", "eng">>} :
         LET a == GroupsAuthorize(allowlist, [Name |-> "u", Groups |-> groups,
                                              Extra |-> <<>>])
         IN  /\ ~a.err
             /\ a.allowed <=>
                  \/ wildcardMatcher \in Range(allowlist)
                  \/ \E g \in Range(groups) : g \in Range(allowlist)

\* The wildcard allowlist has allowed a user with no groups.
C16_Witness ==
  /\ last.op = "authenticate" /\ last.authorizers = <<"groups">>
  /\ cfg.GroupsAllowlist = <<wildcardMatcher>>
  /\ last.user # NoUser /\ last.user.Groups = <<>>
  /\ last.status = 200

(***************************************************************************)
(* C17: the config authorizer decides against the live rule table: a       *)
(* request for a host without an entry is denied with the reason "host not *)
(* configured"; for a host with an entry it is allowed if and only if the  *)
(* entry holds the wildcard or one of the user's groups; an entry with no  *)
(* groups allows nobody.                                                   *)
(***************************************************************************)
C17_ConfigAuthorizer ==
  (last.op = "authenticate" /\ last.authorizers = <<"config">>) =>
    /\ last.table = <<rules>>
    /\ last.req.Host \notin DOMAIN rules =>
         last.status = 403 /\ last.reason = "host not configured"
    /\ last.req.Host \in DOMAIN rules =>
         /\ last.status = 200 <=> GroupsAllow(rules[last.req.Host], last.user)
         /\ last.status = 200 => last.reason # "host not configured"
         /\ rules[last.req.Host] = <<>> => last.status = 403

\* A request for a host without an entry has been denied, after a reload
\* changed the table.
C17_Witness ==
  /\ last.op = "authenticate" /\ last.authorizers = <<"config">>
  /\ last.req.Host = HostB /\ HostB \notin DOMAIN rules
  /\ last.status = 403 /\ last.reason = "host not configured"
  /\ watch.before # watch.after

(***************************************************************************)
(* Vocabulary of the properties on the ID token authenticator.             *)
(***************************************************************************)
\* The answers of the ID token authenticator to the last request.
IDTokenAnswers ==
  {last.tried[i] : i \in {j \in 1..Len(last.tried) : last.tried[j].name = "idtoken"}}

\* The token the last request presents: its header without the blanks and
\* without the "Bearer " prefix.
IsTokenText(x) == x \notin {Space, "Bearer "}
Presented == SelectSeq(last.req.Bearer, IsTokenText)

\* The token passes the verification, and its claims are extracted.
Verified == Presented # <<>> /\ Presented[1] \in DOMAIN IDTokens /\ IDTokens[Presented[1]].valid
Extracted == Verified /\ IDTokens[Presented[1]].claimsOK
HasUserID == Extracted /\ IDTokens[Presented[1]].hasUserID

HasAuthMethod(user) ==
  \E i \in 1..Len(user.Extra) : user.Extra[i] = <<"auth-method", <<"header">>>>

(***************************************************************************)
(* C13: for a token that verifies but holds no userID claim, the ID token  *)
(* authenticator returns handled, no error, and an identity with the empty *)
(* name and no groups.                                                     *)
(***************************************************************************)
C13_AnonymousIdentity ==
  last.op = "authenticate" =>
    \A t \in IDTokenAnswers :
      (Extracted /\ ~HasUserID) =>
        /\ t.handled /\ t.err = "nil"
        /\ t.user # NoUser
        /\ t.user.Name = "" /\ t.user.Groups = <<>>

\* A request with a token without userID claim has been authenticated by
\* the ID token authenticator.
C13_Witness ==
  /\ last.op = "authenticate" /\ Extracted /\ ~HasUserID
  /\ last.outcome = "authenticated" /\ last.by = "idtoken"
  /\ last.user.Name = "" /\ last.user.Groups = <<>>

(***************************************************************************)
(* C14: the ID token authenticator sets the downstream token header if and *)
(* only if the presented token passed verification and claim extraction,   *)
(* to the token, after the configured scheme and a blank if a scheme is    *)
(* configured; with no token, or a token that fails either step, it passes *)
(* the request on and sets no header.                                      *)
(***************************************************************************)
C14_ReemitsOnlyVerified ==
  last.op = "authenticate" =>
    \A t \in IDTokenAnswers :
      /\ t.header # <<>> <=> Extracted
      /\ Extracted =>
           t.header = IF cfg.TokenScheme # <<>>
                      THEN cfg.TokenScheme \o <<Space>> \o Presented
                      ELSE Presented
      /\ ~Extracted => PassThrough(t) /\ last.header = <<>>

\* A verified token, presented with a trailing blank, has been set on the
\* header after the scheme and a blank.
C14_Witness ==
  /\ last.op = "authenticate" /\ last.by = "idtoken"
  /\ last.req.Bearer = <<"good", Space>>
  /\ cfg.TokenScheme = <<"Bearer">>
  /\ last.header = <<"Bearer", Space, "good">>

(***************************************************************************)
(* C15, as stated: every identity the ID token authenticator returns with  *)
(* handled carries extra["auth-method"] = ["header"].                      *)
(***************************************************************************)
C15_AsStated ==
  last.op = "authenticate" =>
    \A t \in IDTokenAnswers : t.handled => HasAuthMethod(t.user)

(***************************************************************************)
(* C15, amended: every identity the ID token authenticator returns for a   *)
(* token that holds a userID claim carries extra["auth-method"] =          *)
(* ["header"]; the anonymous identity it returns for a token without one   *)
(* carries no extra.                                                       *)
(***************************************************************************)
C15_AuthMethodOfNamedIdentity ==
  last.op = "authenticate" =>
    \A t \in IDTokenAnswers :
      /\ (t.handled /\ HasUserID) => HasAuthMethod(t.user)
      /\ (t.handled /\ ~HasUserID) => t.user.Extra = <<>>

\* The ID token authenticator has returned a named identity.
C15_Witness ==
  /\ last.op = "authenticate" /\ last.by = "idtoken"
  /\ HasUserID /\ last.user.Name = "bob"
  /\ HasAuthMethod(last.user)

(***************************************************************************)
(* Vocabulary of the properties on the reload of the rule table.           *)
(***************************************************************************)
\* The tables that are the whole of a valid file.
WholeTables == {parse(c).table : c \in ValidContents}

\* The users of the requests.
WatchUsers ==
  {[Name |-> "bob", Groups |-> <<"eng">>, Extra |-> <<>>],
   [Name |-> "", Groups |-> <<>>, Extra |-> <<>>]}

(***************************************************************************)
(* C18: however the watcher's reload and the requests interleave, the      *)
(* table a decision is computed against is the whole table before the      *)
(* reload or the whole table after it, and so is the live table at every   *)
(* moment: never the emptied table, never part of a table.                 *)
(***************************************************************************)
C18_ReloadAtomicity ==
  /\ rules \in {watch.before, watch.after}
  /\ rules \in WholeTables
  /\ (last.op = "authenticate" /\ last.authorizers = <<"config">>) =>
       \E t \in {watch.before, watch.after} \cap WholeTables :
         /\ last.table = <<t>>
         /\ last.status = 200 <=>
              /\ last.req.Host \in DOMAIN t
              /\ GroupsAllow(t[last.req.Host], last.user)

\* A request has been decided between the moment a reload parsed the new
\* table and the moment it stored it.
C18_Witness ==
  /\ last.op = "authenticate" /\ last.authorizers = <<"config">>
  /\ watch.task = "store"
  /\ watch.before # watch.after
  /\ last.table = <<watch.before>>

(***************************************************************************)
(* C19: a reload that fails (the file is missing or malformed) leaves the  *)
(* live table and every decision as they were, and the watcher goes on     *)
(* receiving events; a reload that succeeds, after a failed one or not,    *)
(* stores the table of the file it read.                                   *)
(***************************************************************************)
C19_FailedReloadKeepsPolicy ==
  [][/\ (last'.op = "watch" /\ last'.loadErr) =>
          /\ rules' = rules
          /\ watch'.task = "select" /\ watch'.pending = <<>>
          /\ \A r \in WatchRequests, u \in WatchUsers :
               ConfigAuthorize(rules', r, u) = ConfigAuthorize(rules, r, u)
     /\ (last'.op = "watch" /\ last'.reload /\ ~last'.loadErr) =>
          /\ watch'.task = "store"
          /\ watch'.after = parse(file).table
     /\ last'.op = "store" => rules' = watch.after
     /\ watch'.task # "stopped"]_vars

\* A reload has failed, and a later reload has stored another table.
C19_Witness ==
  /\ watch.failed
  /\ last.op = "store"
  /\ rules = watch.after /\ rules # watch.before
  /\ file # Missing /\ rules = parse(file).table

(***************************************************************************)
(* C20: once the file has been removed and created again, whatever valid   *)
(* text it holds from then on is eventually the text the live table was    *)
(* loaded from, unless the file changes again first.                       *)
(***************************************************************************)
C20_NoChangeLost ==
  \A c \in ValidContents :
    (watch.recreated /\ file = c) ~> (rules = parse(c).table \/ file # c)

(***************************************************************************)
(* C24: VerifyState classifies a failure by the first check that fails,    *)
(* in the order: empty parameter (MissingParameter), expected cookie       *)
(* absent (MissingCookie), cookie different from the identifier part of    *)
(* the parameter (Mismatch), record not in the store (Expired); the store  *)
(* is read exactly when the first three checks have passed, so a failing   *)
(* store cannot change the answer of a request the checks reject.  The     *)
(* expected cookie is the one the parameter names (NamesCookie).           *)
(***************************************************************************)
PassesChecks(r) ==
  /\ Len(r.State) > 0
  /\ CarriesCookie(r)
  /\ CookieOf(r) = IdPart(r.State)

C24_CheckOrder ==
  [][CallbackStep =>
       LET r == last'.req
           dyn == cfg.dynamicOidcStateCookieName
       IN  /\ Len(r.State) = 0 => last'.verify = "MissingParameter"
           /\ Len(r.State) > 0 /\ NamesCookie(r.State) =>
                /\ ~CarriesCookie(r) => last'.verify = "MissingCookie"
                /\ CarriesCookie(r) /\ CookieOf(r) # IdPart(r.State) =>
                      last'.verify = "Mismatch"
                /\ PassesChecks(r) /\ IdPart(r.State) \notin DOMAIN stateStore =>
                      /\ last'.verify \in {"Expired", "StoreError"}
                      /\ VerifyState(r, stateStore, dyn, "none").outcome = "Expired"
                /\ \A f \in AnyFaults :
                      /\ VerifyState(r, stateStore, dyn, f).storeRead = PassesChecks(r)
                      /\ ~PassesChecks(r) =>
                            VerifyState(r, stateStore, dyn, f).outcome = last'.verify]_vars

\* A callback without its cookie whose record is gone as well: the cookie
\* check answers, the store is not consulted.
C24_Witness ==
  /\ last.op = "callback"
  /\ last.verify = "MissingCookie"
  /\ IdPart(last.req.State) \notin DOMAIN stateStore

(***************************************************************************)
(* C27: with dynamic cookie naming, VerifyState answers every non-empty    *)
(* state parameter with a State or an error and never crashes; a parameter *)
(* without a "." is rejected as an invalid state and the store is left     *)
(* unchanged.                                                              *)
(***************************************************************************)
C27_NeverCrashes ==
  [][CallbackStep /\ cfg.dynamicOidcStateCookieName /\ Len(last'.req.State) > 0 =>
       /\ last'.verify # "Panic"
       /\ ~HasDot(last'.req.State) =>
            /\ last'.verify \notin {"OK", "Panic"}
            /\ stateStore' = stateStore]_vars

(***************************************************************************)
(* C23: when the provider answers 401 to the UserInfo call and the         *)
(* revocation of the tokens at the provider fails as well, the session's   *)
(* record is deleted all the same, the session authenticator only logs the *)
(* error and passes through (no user, not handled, no error), and the      *)
(* request goes on as one without a session.                               *)
(***************************************************************************)
C23_RevocationLocallyReliable ==
  [][AuthStep /\ SA'.userInfo = "401" /\ SA'.revokeErr =>
       /\ last'.req.Session \in DOMAIN store
       /\ last'.req.Session \notin DOMAIN store'
       /\ <<last'.req.Session, "revoked">> \in dropped'
       /\ PassThrough(SA')
       /\ Len(last'.tried) > 1 \/ last'.outcome = "unauthenticated"]_vars

C23_Witness ==
  /\ last.op = "authenticate"
  /\ SA.userInfo = "401"
  /\ SA.revokeErr
  /\ PassThrough(SA)
  /\ last.req.Session \notin DOMAIN store
  /\ <<last.req.Session, "revoked">> \in dropped

(***************************************************************************)
(* C25: for each event the watcher task receives: a Chmod event makes no   *)
(* call and leaves the rule table as it is; a Write or Create event makes  *)
(* exactly one call of loadConfig; a Remove event makes watcher.Add and    *)
(* then loadConfig, also when Add fails; the task goes on after every      *)
(* event and every error, and stops only once the channels are closed.     *)
(***************************************************************************)
\* The calls an event is to cause, in their order.
CallsFor(ev) ==
  IF ev.Op = {"Chmod"} THEN <<>>
  ELSE IF "Remove" \in ev.Op THEN <<"Add", "loadConfig">>
  ELSE <<"loadConfig">>

SingleOpEvents == {[Op |-> {op}] : op \in Ops}

C25_EventHandling ==
  /\ [](\A ev \in SingleOpEvents : \A armed \in BOOLEAN :
          HandleEvent(ev, armed, file).calls = CallsFor(ev))
  /\ [][/\ (last'.op = "watch") =>
           (/\ last'.calls = CallsFor(last'.ev)
            /\ (last'.ev.Op = {"Chmod"}) =>
                 (/\ ~last'.reload
                  /\ rules' = rules
                  /\ watch'.pending = <<>>
                  /\ watch'.task = "select")
            /\ (last'.ev.Op \in {{"Write"}, {"Create"}}) =>
                 (last'.reload /\ ~last'.readd)
            /\ (last'.ev.Op = {"Remove"}) => (last'.readd /\ last'.reload)
            /\ watch'.task \in {"select", "store"})
        /\ (last'.op = "watchError") => (watch'.task = "select")
        /\ (watch.task # "stopped" /\ watch'.task = "stopped") => watch.closed]_vars

\* A Remove event whose re-add failed and whose reload was made all the same.
C25_Witness ==
  /\ last.op = "watch"
  /\ last.ev.Op = {"Remove"}
  /\ last.addErr
  /\ last.calls = <<"Add", "loadConfig">>
  /\ watch.task # "stopped"

\* This step is a request on the main server that ran handler logic: the
\* authenticator chain, the callback logic or the logout logic.
RanHandler ==
  \/ last'.op \in {"authenticate", "callback", "logout"}
  \/ last'.op = "route" /\ last'.ran \in {"authenticate", "callback", "logout"}

\* This step is a step of main.
MainAt(pc) == last'.op = "main" /\ last'.pc = pc

(***************************************************************************)
(* C21: while the readiness flag is unset no request on the main server    *)
(* runs the authenticator chain, the callback logic or the logout logic:   *)
(* every request that arrives then is held.                                *)
(***************************************************************************)
C21_ReadinessGate ==
  [][/\ RanHandler => boot.isReady
     /\ (last'.op = "route" /\ ~boot.isReady) => (last'.ran = "held")]_vars

(***************************************************************************)
(* C22: a failed discovery is followed by another attempt, however many    *)
(* have failed; the readiness flag is set only after a discovery has       *)
(* succeeded; the readiness probe and the main server are started before   *)
(* the first discovery attempt and a failed attempt leaves them running;   *)
(* and once a discovery has succeeded the readiness flag is eventually     *)
(* set, unless the process ends on a fatal error.                          *)
(***************************************************************************)
C22_StartupDiscovery ==
  /\ [][MainAt("discovery") =>
          /\ boot.probe /\ boot.server
          /\ (~last'.ok) =>
               (/\ boot'.pc = "discovery"
                /\ boot'.probe /\ boot'.server
                /\ ~boot'.isReady)]_vars
  /\ [](boot.isReady => boot.discovered)
  /\ [](boot.pc = "discovery" => ENABLED MainStep)
  /\ (boot.discovered ~> (boot.isReady \/ boot.pc = "exit"))

\* Discovery has failed as often as is counted, then succeeded, and the
\* flag is set.
C22_Witness ==
  /\ boot.failures = MaxRetries
  /\ boot.discovered
  /\ boot.isReady

(***************************************************************************)
(* C26: the readiness flag, once set, stays set; it is set by one step     *)
(* only; wherever it is set, every field of the server has been assigned;  *)
(* and a request that passes the readiness test runs on a server with all  *)
(* its fields.                                                             *)
(***************************************************************************)
C26_ReadinessMonotonic ==
  /\ [][/\ boot.isReady => boot'.isReady
        /\ (~boot.isReady /\ boot'.isReady) => MainAt("setReady")
        /\ (last'.op = "authenticate") => (boot.isReady /\ Configured)]_vars
  /\ [](boot.isReady => Configured)

\* A request that the authenticate handler served after the flag was set.
C26_Witness ==
  /\ boot.isReady
  /\ boot.pc = "wait"
  /\ last.op = "authenticate"
====
